---- MODULE Spec2Model ----
(***************************************************************************)
(* A model of folium's loader: the lexer, the slide grouping, the content  *)
(* parser, the style parser and the style fill-in of interpreter.rs,       *)
(* together with the element arena of ast.rs and the style maps of         *)
(* style.rs, the Present mode of main.rs and the content area of          *)
(* layout.rs.                                                              *)
(*                                                                         *)
(* A source text is a sequence of characters (one-character strings).      *)
(* Rust enums are tagged tuples: Ident(s) is <<"Ident", s>>, a Number      *)
(* property value is <<"Number", n>>.  Option::None of a name is NoName.   *)
(***************************************************************************)
EXTENDS Integers, Sequences, FiniteSets, TLC

VARIABLES
    source,             \* load's argument: the source text
    authored,           \* the document the source was written from (input provenance)
    pc,                 \* load's position: "lex", "group", "slides", "done"
    contiguous_tokens,  \* interpreter.rs:485
    grouped_tokens,     \* interpreter.rs:623
    slide_idx,          \* how many of grouped_tokens the loop at :643 has consumed;
                        \* once Present has started, slide_idx of main.rs:114
    global,             \* the GlobalState load was given
    partial_styles,     \* per loaded slide, style_map as it is before fill_in (:731)
    result,             \* "Running", "Ok", "Err" (load returned Err) or "Panic"
    err,                \* the FoliumError returned, or the one the panic reported
    stylemap,           \* a StyleMap of its own, for the calls of style.rs
    filled,             \* whether fill_in has been applied to stylemap
    extracted,          \* the last typed extraction from stylemap and its outcome
    ui,                 \* Present's position: "off", "waiting" (blocked in wait_iter),
                        \* "exited" or "panicked"
    event,              \* the event wait_iter yielded last (main.rs:117)
    number_of_slides,   \* main.rs:94
    texture_map,        \* RenderData::texture_map: element id -> path of the texture
    window_needs_redraw,\* main.rs:116
    canvas,             \* what the window shows: Black or Showing(idx)
    rendered            \* the slide_idx of the last call of render, if any

load_vars == <<source, authored, pc, contiguous_tokens, grouped_tokens, slide_idx,
               global, partial_styles, result, err>>

style_vars == <<stylemap, filled, extracted>>

present_vars == <<ui, event, number_of_slides, texture_map, window_needs_redraw, canvas,
                  rendered>>

vars == <<load_vars, style_vars, present_vars>>

\* The window after canvas.clear() and canvas.present() (main.rs:105-107), and
\* after render has presented the slide of index idx (render.rs:329).
Black == <<"Black">>
Showing(idx) == <<"Slide", idx>>

NoEvent == "None"

\* Present mode has not been entered.
NotPresenting ==
    /\ ui = "off"
    /\ event = NoEvent
    /\ number_of_slides = 0
    /\ texture_map = <<>>
    /\ window_needs_redraw = FALSE
    /\ canvas = Black
    /\ rendered = <<>>

(***************************************************************************)
(* Bounds of the inputs.                                                   *)
(***************************************************************************)
MaxNodes == 3
MaxLexLen == 4
MaxStyles == 2

(***************************************************************************)
(* Sequence helpers.                                                       *)
(***************************************************************************)
\* The concatenation of the sequences ss[lo], ..., ss[hi], by halves.
RECURSIVE FlattenRange(_, _, _)
FlattenRange(ss, lo, hi) ==
    IF lo > hi THEN <<>>
    ELSE IF lo = hi THEN ss[lo]
    ELSE FlattenRange(ss, lo, (lo + hi) \div 2) \o FlattenRange(ss, (lo + hi) \div 2 + 1, hi)

Flatten(ss) == FlattenRange(ss, 1, Len(ss))

\* The string of the characters cs[lo], ..., cs[hi].
RECURSIVE ConcatRange(_, _, _)
ConcatRange(cs, lo, hi) ==
    IF lo > hi THEN ""
    ELSE IF lo = hi THEN cs[lo]
    ELSE ConcatRange(cs, lo, (lo + hi) \div 2) \o ConcatRange(cs, (lo + hi) \div 2 + 1, hi)

ConcatStr(cs) == ConcatRange(cs, 1, Len(cs))

Drop(s, n) == IF n >= Len(s) THEN <<>> ELSE SubSeq(s, n + 1, Len(s))
Take(s, n) == IF n >= Len(s) THEN s ELSE SubSeq(s, 1, n)

Quote == "\""
Newline == "\n"

(***************************************************************************)
(* Tokens (interpreter.rs:12-57) and property values (style.rs:11-19).     *)
(***************************************************************************)
OpeningSlideParen == <<"OpeningSlideParen">>
ClosingSlideParen == <<"ClosingSlideParen">>
Definition == <<"Definition">>
ValueAssignment == <<"ValueAssignment">>
ListSeparator == <<"ListSeparator">>
StringDelim == <<"StringDelim">>
OpeningArgsParen == <<"OpeningArgsParen">>
ClosingArgsParen == <<"ClosingArgsParen">>
OpeningParamsParen == <<"OpeningParamsParen">>
ClosingParamsParen == <<"ClosingParamsParen">>
Value(pv) == <<"Value", pv>>
Ident(s) == <<"Ident", s>>

PNumber(n) == <<"Number", n>>
PString(s) == <<"String", s>>
PBoolean(b) == <<"Boolean", b>>
PColour(r, g, b) == <<"Colour", r, g, b>>

IsIdent(t) == t[1] = "Ident"
IsValue(t) == t[1] = "Value"
IsStringValue(t) == t[1] = "Value" /\ t[2][1] = "String"

TokenLocation(line, col) == [line |-> line, col |-> col]
FatToken(token, line, col) == [token |-> token, location |-> TokenLocation(line, col)]

AlreadyParsed(line, col, token) ==
    [kind |-> "AlreadyParsed", line_idx |-> line, col_idx |-> col, value |-> token]
NotYetParsed(line, col, c) ==
    [kind |-> "NotYetParsed", line_idx |-> line, col_idx |-> col, value |-> c]

IsDelim(e) == e.kind = "AlreadyParsed" /\ e.value = StringDelim

(***************************************************************************)
(* The lexer, first part: the character stream (interpreter.rs:406-416).   *)
(***************************************************************************)
\* The index of the first "\n" of s, or Len(s) + 1 when there is none.
FirstNewline(s) ==
    IF \E i \in 1..Len(s) : s[i] = Newline
    THEN CHOOSE i \in 1..Len(s) : s[i] = Newline /\ \A j \in 1..(i - 1) : s[j] # Newline
    ELSE Len(s) + 1

\* str::lines: split at "\n"; a final line terminator ends the last line, it does
\* not start an empty one.
RECURSIVE Lines(_)
Lines(s) ==
    IF s = <<>> THEN <<>>
    ELSE <<Take(s, FirstNewline(s) - 1)>> \o Lines(Drop(s, FirstNewline(s)))

\* line.starts_with("//")
StartsWithComment(line) == Len(line) >= 2 /\ line[1] = "/" /\ line[2] = "/"

KeepLine(line) == ~StartsWithComment(line)

\* (line_idx, char_idx, c) of every character of the line of index i (from 1)
CharactersOfLine(ls, i) ==
    IF KeepLine(ls[i])
    THEN [j \in 1..Len(ls[i]) |-> [line |-> i - 1, col |-> j - 1, c |-> ls[i][j]]]
    ELSE <<>>

CharactersOfLines(ls) == Flatten([i \in 1..Len(ls) |-> CharactersOfLine(ls, i)])

\* all_characters (interpreter.rs:406-416): the characters of the lines that are
\* kept; the line terminators are not part of any line.
AllCharacters(s) == CharactersOfLines(Lines(s))

(***************************************************************************)
(* The lexer, second part: one raw token per character, ":" ":" being one  *)
(* Definition (interpreter.rs:418-483).                                    *)
(***************************************************************************)
Punctuation(c) ==
    CASE c = "[" -> OpeningSlideParen
      [] c = "]" -> ClosingSlideParen
      [] c = "(" -> OpeningArgsParen
      [] c = ")" -> ClosingArgsParen
      [] c = "{" -> OpeningParamsParen
      [] c = "}" -> ClosingParamsParen
      [] c = Quote -> StringDelim
      [] c = "," -> ListSeparator

IsPunctuation(c) == c \in {"[", "]", "(", ")", "{", "}", Quote, ","}

\* How many ":" stand immediately before the character of index i.
RECURSIVE ColonsBefore(_, _)
ColonsBefore(chars, i) ==
    IF i > 1 /\ chars[i - 1].c = ":" THEN 1 + ColonsBefore(chars, i - 1) ELSE 0

\* The raw token the loop at interpreter.rs:420-483 pushes when it takes the
\* character of index i; none when the ":" before it took that character as the
\* second half of "::" (next_if at :460).  The ":" of a run pair up from the left.
RawTokenAt(chars, i) ==
    IF IsPunctuation(chars[i].c)
    THEN <<AlreadyParsed(chars[i].line, chars[i].col, Punctuation(chars[i].c))>>
    ELSE IF chars[i].c # ":"
    THEN <<NotYetParsed(chars[i].line, chars[i].col, chars[i].c)>>
    ELSE IF ColonsBefore(chars, i) % 2 = 1 THEN <<>>
    ELSE IF i < Len(chars) /\ chars[i + 1].c = ":"
    THEN <<AlreadyParsed(chars[i].line, chars[i].col, Definition)>>
    ELSE <<AlreadyParsed(chars[i].line, chars[i].col, ValueAssignment)>>

RawTokens(chars) == Flatten([i \in 1..Len(chars) |-> RawTokenAt(chars, i)])

(***************************************************************************)
(* The lexer, third part: strings and bare words (interpreter.rs:485-620). *)
(***************************************************************************)
DigitValue ==
    ("0" :> 0) @@ ("1" :> 1) @@ ("2" :> 2) @@ ("3" :> 3) @@ ("4" :> 4) @@
    ("5" :> 5) @@ ("6" :> 6) @@ ("7" :> 7) @@ ("8" :> 8) @@ ("9" :> 9)

HexValue ==
    DigitValue @@
    ("a" :> 10) @@ ("b" :> 11) @@ ("c" :> 12) @@ ("d" :> 13) @@ ("e" :> 14) @@ ("f" :> 15) @@
    ("A" :> 10) @@ ("B" :> 11) @@ ("C" :> 12) @@ ("D" :> 13) @@ ("E" :> 14) @@ ("F" :> 15)

\* u32::MAX, 4294967295, digit by digit: the integers of TLC are narrower than
\* 32 bits unsigned, so the range test compares digit strings.
U32MaxDigits == <<4, 2, 9, 4, 9, 6, 7, 2, 9, 5>>

RECURSIVE StripZeros(_)
StripZeros(ds) == IF Len(ds) > 1 /\ Head(ds) = 0 THEN StripZeros(Tail(ds)) ELSE ds

\* a <= b for two digit sequences of the same length
RECURSIVE DigitsLeq(_, _)
DigitsLeq(a, b) ==
    IF a = <<>> THEN TRUE
    ELSE IF Head(a) # Head(b) THEN Head(a) < Head(b)
    ELSE DigitsLeq(Tail(a), Tail(b))

FitsU32(w) ==
    LET ds == StripZeros([i \in 1..Len(w) |-> DigitValue[w[i]]])
    IN  \/ Len(ds) < Len(U32MaxDigits)
        \/ Len(ds) = Len(U32MaxDigits) /\ DigitsLeq(ds, U32MaxDigits)

RECURSIVE DecimalValue(_, _)
DecimalValue(w, acc) ==
    IF w = <<>> THEN acc ELSE DecimalValue(Tail(w), 10 * acc + DigitValue[Head(w)])

\* working_value.parse::<u32>(): an optional "+", then one or more decimal
\* digits whose value fits 32 bits.
ParsesAsU32(w) ==
    LET digits == IF w # <<>> /\ Head(w) = "+" THEN Tail(w) ELSE w
    IN  /\ digits # <<>>
        /\ \A i \in 1..Len(digits) : digits[i] \in DOMAIN DigitValue
        /\ FitsU32(digits)

U32Of(w) == DecimalValue(IF Head(w) = "+" THEN Tail(w) ELSE w, 0)

\* starts_with('#') && len() == 7 && the rest are hex digits
ParsesAsColour(w) ==
    /\ Len(w) = 7
    /\ w[1] = "#"
    /\ \A i \in 2..7 : w[i] \in DOMAIN HexValue

HexPair(w, i) == 16 * HexValue[w[i]] + HexValue[w[i + 1]]

\* The token of a bare word (interpreter.rs:575-617).
ClassifyWord(w) ==
    LET working_value == ConcatStr(w) IN
    IF ParsesAsU32(w) THEN Value(PNumber(U32Of(w)))
    ELSE IF working_value = "true" THEN Value(PBoolean(TRUE))
    ELSE IF working_value = "false" THEN Value(PBoolean(FALSE))
    ELSE IF ParsesAsColour(w)
         THEN Value(PColour(HexPair(w, 2), HexPair(w, 4), HexPair(w, 6)))
    ELSE Ident(working_value)

\* What a string literal keeps of a raw token between its delimiters
\* (interpreter.rs:514-517).
StringPiece(elem) == IF elem.kind = "NotYetParsed" THEN <<elem.value>> ELSE <<>>

\* The take_while of the string branch (interpreter.rs:504-513): how many raw
\* tokens from index i on come before the next StringDelim.
RECURSIVE UntilDelim(_, _)
UntilDelim(raw, i) ==
    IF i <= Len(raw) /\ ~IsDelim(raw[i]) THEN 1 + UntilDelim(raw, i + 1) ELSE 0

\* The take_while of the bare-word branch (interpreter.rs:555-566): how many raw
\* tokens from index i on belong to the word.
IsWordPart(elem) == elem.kind = "NotYetParsed" /\ elem.value \notin {" ", ","}

RECURSIVE WordLength(_, _)
WordLength(raw, i) ==
    IF i <= Len(raw) /\ IsWordPart(raw[i]) THEN 1 + WordLength(raw, i + 1) ELSE 0

\* The string token of the StringDelim at index i and of the n raw tokens the
\* take_while collected after it.
StringToken(raw, i, n) ==
    FatToken(Value(PString(ConcatStr(Flatten([k \in 1..n |-> StringPiece(raw[i + k])])))),
             raw[i].line_idx, raw[i].col_idx)

\* The token of the word of n characters that starts at index i.
WordToken(raw, i, n) ==
    FatToken(ClassifyWord([k \in 1..n |-> raw[i + k - 1].value]),
             raw[i].line_idx, raw[i].col_idx)

\* tokens_to_ignore (interpreter.rs:486, 491-494), seen from the raw token of
\* index i.  The take_while of a string counts every token it tests, the
\* StringDelim that stops it included, so the StringDelims pair up from the left:
\* a token is skipped for a string exactly when an odd number of StringDelims
\* stand before it.  delims is the set of the indices of the StringDelims.
TakenByString(delims, i) == Cardinality({j \in delims : j < i}) % 2 = 1

\* The take_while of a word counts the characters of the word, the first one
\* included, and one is taken off again: a character is skipped for a word
\* exactly when the raw token before it is a character of the same word.
TakenByWord(raw, i) == i > 1 /\ IsWordPart(raw[i - 1])

\* What one turn of the loop at interpreter.rs:490-620 pushes for the raw token
\* of index i.
ContiguousAt(raw, delims, i) ==
    IF TakenByString(delims, i) THEN <<>>
    ELSE IF IsDelim(raw[i]) THEN <<StringToken(raw, i, UntilDelim(raw, i + 1))>>
    ELSE IF raw[i].kind = "AlreadyParsed"
    THEN <<FatToken(raw[i].value, raw[i].line_idx, raw[i].col_idx)>>
    ELSE IF raw[i].value = " " THEN <<>>
    ELSE IF TakenByWord(raw, i) THEN <<>>
    ELSE <<WordToken(raw, i, WordLength(raw, i))>>

ContiguousWith(raw, delims) ==
    Flatten([i \in 1..Len(raw) |-> ContiguousAt(raw, delims, i)])

Contiguous(raw) == ContiguousWith(raw, {j \in 1..Len(raw) : IsDelim(raw[j])})

\* interpreter.rs:406-620
Tokenize(s) == Contiguous(RawTokens(AllCharacters(s)))

(***************************************************************************)
(* Element types and the arena (ast.rs).                                   *)
(***************************************************************************)
ElementTypes == {"Row", "Col", "Centre", "Padding", "Text", "Code", "Image", "ElNone"}

\* impl TryFrom<&str> for ElementType (ast.rs:164-182): the keyword of each type
Keyword ==
    ("col" :> "Col") @@ ("row" :> "Row") @@ ("text" :> "Text") @@ ("code" :> "Code") @@
    ("img" :> "Image") @@ ("none" :> "ElNone") @@ ("padding" :> "Padding") @@
    ("centre" :> "Centre")

IsElementType(word) == word \in DOMAIN Keyword

\* ElementType::string_rep (ast.rs:144-155)
string_rep(el_type) ==
    CASE el_type = "Row" -> "row"
      [] el_type = "Col" -> "col"
      [] el_type = "Centre" -> "centre"
      [] el_type = "Padding" -> "padding"
      [] el_type = "Text" -> "text"
      [] el_type = "Code" -> "code"
      [] el_type = "Image" -> "image"
      [] el_type = "ElNone" -> "none"

NoName == <<"None">>
SomeName(s) == <<"Some", s>>

\* AbstractElementData (ast.rs:119-129)
DRow(children) == <<"Row", children>>
DCol(children) == <<"Col", children>>
DCentre(child) == <<"Centre", child>>
DPadding(child) == <<"Padding", child>>
DText(s) == <<"Text", s>>
DCode(s) == <<"Code", s>>
DImage(path) == <<"Image", path>>
DNone == <<"None">>

\* GlobalState::new (ast.rs:15-21)
NewGlobalState == [unassigned_id |-> 0, slides |-> <<>>, elements |-> <<>>]

\* A plausible slip: the id is handed out before the counter is advanced.
generate_id_stale(g) ==
    [global |-> [g EXCEPT !.unassigned_id = @ + 1], id |-> g.unassigned_id]

\* GlobalState::generate_id (ast.rs:47-51).  The counter is a u32; the inputs
\* of this model stay far below 2^32 ids.
generate_id(g) ==
    [global |-> [g EXCEPT !.unassigned_id = @ + 1], id |-> g.unassigned_id + 1]

\* A plausible slip: the element is stored without the name it was declared with.
push_element_unnamed(g, data, el_type, name) ==
    LET gen == generate_id(g)
        elem == [data |-> data, name |-> NoName, id |-> gen.id, el_type |-> el_type]
    IN  [global |-> [gen.global EXCEPT !.elements = Append(@, elem)], id |-> gen.id]

\* A plausible slip: the new element is put in front of the vector.
push_element_in_front(g, data, el_type, name) ==
    LET gen == generate_id(g)
        elem == [data |-> data, name |-> name, id |-> gen.id, el_type |-> el_type]
    IN  [global |-> [gen.global EXCEPT !.elements = <<elem>> \o @], id |-> gen.id]

\* GlobalState::push_element (ast.rs:28-43)
push_element(g, data, el_type, name) ==
    LET gen == generate_id(g)
        elem == [data |-> data, name |-> name, id |-> gen.id, el_type |-> el_type]
    IN  [global |-> [gen.global EXCEPT !.elements = Append(@, elem)], id |-> gen.id]

\* A plausible slip: the slide takes the id of its content instead of a fresh one.
push_new_slide_reusing_id(g, content, styles) ==
    [g EXCEPT !.slides = Append(@, [content |-> content, styles |-> styles, id |-> content])]

\* Slide::new (ast.rs:226-232) followed by GlobalState::push_slide (ast.rs:23-26)
push_new_slide(g, content, styles) ==
    LET gen == generate_id(g)
        slide == [content |-> content, styles |-> styles, id |-> gen.id]
    IN  [gen.global EXCEPT !.slides = Append(@, slide)]

\* GlobalState::get_element_by_id (ast.rs:53-59): the first element with that
\* id, as a sequence of at most one element (Option).
get_element_by_id(g, id) ==
    LET hits == {i \in 1..Len(g.elements) : g.elements[i].id = id}
    IN  IF hits = {} THEN <<>>
        ELSE <<g.elements[CHOOSE i \in hits : \A j \in hits : i <= j]>>

(***************************************************************************)
(* Errors (error.rs).                                                      *)
(***************************************************************************)
NoError == [kind |-> "None"]
UnknownType(location, offending_token) ==
    [kind |-> "UnknownType", location |-> location, offending_token |-> offending_token]
UseOfContentTypeName(location, word) ==
    [kind |-> "UseOfContentTypeName", location |-> location, word |-> word]
ExpectedToken(location, expected, got) ==
    [kind |-> "ExpectedToken", location |-> location, expected |-> expected, got |-> got]
ExpectedReason(location, expected, got) ==
    [kind |-> "ExpectedReason", location |-> location, expected |-> expected, got |-> got]
UnexpectedFileEndWithToken(location, expected) ==
    [kind |-> "UnexpectedFileEndWithToken", location |-> location, expected |-> expected]
UnexpectedFileEndWithReason(location, expected) ==
    [kind |-> "UnexpectedFileEndWithReason", location |-> location, expected |-> expected]

(***************************************************************************)
(* The content parser (interpreter.rs:105-395).                            *)
(*                                                                         *)
(* An iterator is the sequence of the tokens it has not yielded yet.  A    *)
(* call ends in one of three ways: "Ok" with the id, "Err" with the error  *)
(* it returns, or "Panic" (err is then the error the panic reported, or    *)
(* NoError when the panic had none).  The arena as the call leaves it is   *)
(* part of every result.                                                   *)
(***************************************************************************)
POk(id, g, rest) == [tag |-> "Ok", id |-> id, err |-> NoError, global |-> g, rest |-> rest]
PErr(e, g) == [tag |-> "Err", id |-> 0, err |-> e, global |-> g, rest |-> <<>>]
PPanic(e, g) == [tag |-> "Panic", id |-> 0, err |-> e, global |-> g, rest |-> <<>>]

HeadOk(maybe_name, element_type, should_check, rest) ==
    [tag |-> "Ok", maybe_name |-> maybe_name, element_type |-> element_type,
     should_check_opening_paren |-> should_check, rest |-> rest, err |-> NoError]
HeadFail(tag, e) ==
    [tag |-> tag, maybe_name |-> NoName, element_type |-> "ElNone",
     should_check_opening_paren |-> FALSE, rest |-> <<>>, err |-> e]

\* interpreter.rs:109-223: the name and the type of the definition
parse_name_and_type(iter) ==
    IF iter = <<>> THEN HeadFail("Panic", NoError)   \* .expect(...) at :109-111
    ELSE
    LET content_name_or_type == Head(iter)
        r1 == Tail(iter)
    IN
    IF ~IsIdent(content_name_or_type.token)
    THEN HeadFail("Err", ExpectedReason(content_name_or_type.location,
                                        "a content type or name",
                                        content_name_or_type.token))
    ELSE
    LET ident_val == content_name_or_type.token[2] IN
    IF IsElementType(ident_val)
    THEN \* anonymous: interpreter.rs:121-156
         IF r1 = <<>>
         THEN HeadFail("Err", UnexpectedFileEndWithToken(content_name_or_type.location,
                                                         OpeningArgsParen))
         ELSE IF Head(r1).token = Definition
         THEN HeadFail("Err", UseOfContentTypeName(Head(r1).location,
                                                   string_rep(Keyword[ident_val])))
         ELSE IF Head(r1).token = OpeningArgsParen
         THEN HeadOk(NoName, Keyword[ident_val], FALSE, Tail(r1))
         ELSE HeadFail("Err", ExpectedToken(Head(r1).location, OpeningArgsParen,
                                            Head(r1).token))
    ELSE \* named: interpreter.rs:157-214
         IF r1 = <<>>
         THEN HeadFail("Err", UnexpectedFileEndWithToken(content_name_or_type.location,
                                                         Definition))
         ELSE IF Head(r1).token # Definition
         THEN HeadFail("Err", ExpectedToken(Head(r1).location, Definition, Head(r1).token))
         ELSE
         LET r2 == Tail(r1) IN
         IF r2 = <<>>
         THEN HeadFail("Err", UnexpectedFileEndWithReason(Head(r1).location,
                                                          "a content type"))
         ELSE IF ~IsIdent(Head(r2).token)
         THEN HeadFail("Err", ExpectedReason(Head(r2).location, "a content type",
                                             Head(r2).token))
         ELSE IF IsElementType(Head(r2).token[2])
         THEN HeadOk(SomeName(ident_val), Keyword[Head(r2).token[2]], TRUE, Tail(r2))
         ELSE HeadFail("Err", UnknownType(Head(r2).location, Head(r2).token[2]))

\* A plausible slip: the named branch believes the paren was checked already.
check_opening_paren_skipped(h, first_location) == h

\* interpreter.rs:227-250: the "(" after `name :: type`
check_opening_paren(h, first_location) ==
    IF h.tag # "Ok" \/ ~h.should_check_opening_paren THEN h
    ELSE IF h.rest = <<>>
    THEN HeadFail("Err", UnexpectedFileEndWithToken(first_location, OpeningArgsParen))
    ELSE IF Head(h.rest).token = OpeningArgsParen
    THEN [h EXCEPT !.rest = Tail(@)]
    ELSE HeadFail("Err", ExpectedToken(Head(h.rest).location, OpeningArgsParen,
                                       Head(h.rest).token))

\* interpreter.rs:252-262: the tokens up to the ")" that closes the argument
\* list; that ")" is consumed, and so is everything when it never comes.
\* brackets is a u8: it would overflow at 255 nested "(", far above the inputs
\* of this model.
RECURSIVE BodyEnd(_, _, _)
BodyEnd(iter, i, brackets) ==
    IF i > Len(iter) THEN i
    ELSE LET b == CASE iter[i].token = OpeningArgsParen -> brackets + 1
                    [] iter[i].token = ClosingArgsParen -> brackets - 1
                    [] OTHER -> brackets
         IN  IF b > 0 THEN BodyEnd(iter, i + 1, b) ELSE i

take_content_tokens(iter) ==
    LET e == BodyEnd(iter, 1, 1)
    IN  [content_tokens |-> Take(iter, e - 1), rest |-> Drop(iter, e)]

\* One take_while_inclusive of split_child_elements (interpreter.rs:357-374):
\* the index of the last token of the group that starts at i (Len(iter) when
\* the iterator runs out), or 0 when brackets, a usize, is decremented at 0.
RECURSIVE GroupEnd(_, _, _, _)
GroupEnd(iter, i, taken_a_bracket, brackets) ==
    IF i > Len(iter) THEN Len(iter)
    ELSE IF iter[i].token = OpeningArgsParen
    THEN GroupEnd(iter, i + 1, TRUE, brackets + 1)
    ELSE IF iter[i].token = ClosingArgsParen
    THEN IF brackets = 0 THEN 0
         ELSE IF brackets - 1 # 0 \/ ~taken_a_bracket
         THEN GroupEnd(iter, i + 1, taken_a_bracket, brackets - 1)
         ELSE i
    ELSE GroupEnd(iter, i + 1, taken_a_bracket, brackets)

\* interpreter.rs:376-391: what a token group contributes to children
ChildOfGroup(token_group) ==
    IF Head(token_group).token = ListSeparator THEN Tail(token_group) ELSE token_group

\* A plausible slip (the one the comment at interpreter.rs:314 warns of): the
\* body is split at every ListSeparator, whatever its depth.
RECURSIVE UntilSeparator(_, _)
UntilSeparator(iter, i) ==
    IF i <= Len(iter) /\ iter[i].token # ListSeparator THEN 1 + UntilSeparator(iter, i + 1) ELSE 0

RECURSIVE split_at_every_separator(_)
split_at_every_separator(iter) ==
    IF iter = <<>> THEN [overflow |-> FALSE, children |-> <<>>]
    ELSE LET n == UntilSeparator(iter, 1) IN
         [overflow |-> FALSE,
          children |-> <<Take(iter, n)>> \o split_at_every_separator(Drop(iter, n + 1)).children]

\* split_child_elements (interpreter.rs:351-395).  overflow: the subtraction at
\* :369 underflowed (a panic in a debug build).  parse_content_definition never
\* passes such a body: take_content_tokens ends it at the first unmatched ")".
RECURSIVE split_child_elements(_)
split_child_elements(iter) ==
    IF iter = <<>> THEN [overflow |-> FALSE, children |-> <<>>]
    ELSE LET e == GroupEnd(iter, 1, FALSE, 0) IN
         IF e = 0 THEN [overflow |-> TRUE, children |-> <<>>]
         ELSE LET more == split_child_elements(Drop(iter, e))
              IN  [overflow |-> more.overflow,
                   children |-> <<ChildOfGroup(Take(iter, e))>> \o more.children]

\* A plausible slip: a failed child becomes the default id instead of a panic.
unwrap_child_or_default(r) == [panic |-> FALSE, id |-> r.id]

\* .map_err(|err| panic!(..)).unwrap() of a child's result
\* (interpreter.rs:292-297, 304-309, 321-323, 337-339)
unwrap_child(r) ==
    IF r.tag = "Ok" THEN [panic |-> FALSE, id |-> r.id] ELSE [panic |-> TRUE, id |-> 0]

\* content_tokens[0] of text, code and img (interpreter.rs:266-289): the index
\* panics on an empty body, the match on anything but a string value.
FirstStringPanics(content_tokens) ==
    content_tokens = <<>> \/ ~IsStringValue(content_tokens[1].token)

RECURSIVE parse_content_definition(_, _)
RECURSIVE parse_children(_, _, _)

\* The element a finished definition puts into the arena, and the Ok that names
\* it (interpreter.rs:264-348).
PushedOk(pushed, rest) == POk(pushed.id, pushed.global, rest)

push_definition(g, data, h, rest) ==
    PushedOk(push_element(g, data, h.element_type, h.maybe_name), rest)

\* Text, Code and Image (interpreter.rs:266-289)
string_data(element_type, str) ==
    CASE element_type = "Text" -> DText(str)
      [] element_type = "Code" -> DCode(str)
      [] element_type = "Image" -> DImage(str)

\* Centre and Padding once their child r is parsed (interpreter.rs:290-313)
wrap_child(h, r, rest) ==
    IF unwrap_child(r).panic THEN PPanic(r.err, r.global)
    ELSE push_definition(r.global,
                         IF h.element_type = "Centre" THEN DCentre(unwrap_child(r).id)
                                                      ELSE DPadding(unwrap_child(r).id),
                         h, rest)

\* Row and Col once their children are parsed (interpreter.rs:314-345)
wrap_children(h, kids, rest) ==
    IF kids.panic THEN PPanic(kids.err, kids.global)
    ELSE push_definition(kids.global,
                         IF h.element_type = "Row" THEN DRow(kids.ids) ELSE DCol(kids.ids),
                         h, rest)

\* next_child collecting the ids back to front.
next_child_prepending(r, remaining, ids) ==
    IF unwrap_child(r).panic
    THEN [panic |-> TRUE, ids |-> ids, global |-> r.global, err |-> r.err]
    ELSE parse_children(remaining, r.global, << unwrap_child(r).id >> \o ids)

\* One step of the map over children_tokens of Row and Col
\* (interpreter.rs:318-325, 334-341): r is the child just parsed.
next_child(r, remaining, ids) ==
    IF unwrap_child(r).panic
    THEN [panic |-> TRUE, ids |-> ids, global |-> r.global, err |-> r.err]
    ELSE parse_children(remaining, r.global, Append(ids, unwrap_child(r).id))

\* The children in order, each into the arena the previous one left.
parse_children(children_tokens, g, ids) ==
    IF children_tokens = <<>> THEN [panic |-> FALSE, ids |-> ids, global |-> g, err |-> NoError]
    ELSE next_child(parse_content_definition(Head(children_tokens), g),
                    Tail(children_tokens), ids)

row_or_col(h, children_tokens, g, rest) ==
    IF children_tokens.overflow THEN PPanic(NoError, g)
    ELSE wrap_children(h, parse_children(children_tokens.children, g, <<>>), rest)

\* The match on element_type (interpreter.rs:264-346)
parse_body(h, content_tokens, rest, g) ==
    CASE h.element_type = "ElNone" -> push_definition(g, DNone, h, rest)
      [] h.element_type \in {"Text", "Code", "Image"} ->
            IF FirstStringPanics(content_tokens) THEN PPanic(NoError, g)
            ELSE push_definition(g, string_data(h.element_type, content_tokens[1].token[2][2]),
                                 h, rest)
      [] h.element_type \in {"Centre", "Padding"} ->
            wrap_child(h, parse_content_definition(content_tokens, g), rest)
      [] h.element_type \in {"Row", "Col"} ->
            row_or_col(h, split_child_elements(content_tokens), g, rest)

\* What follows the head h of a definition (interpreter.rs:252-348)
parse_taken(h, body, g) == parse_body(h, body.content_tokens, body.rest, g)

parse_after_head(h, g) ==
    IF h.tag = "Panic" THEN PPanic(h.err, g)
    ELSE IF h.tag = "Err" THEN PErr(h.err, g)
    ELSE parse_taken(h, take_content_tokens(h.rest), g)

\* content_name_or_type.location (interpreter.rs:109-111, used at :244-247)
first_location(iter) == IF iter = <<>> THEN TokenLocation(0, 0) ELSE Head(iter).location

\* parse_content_definition (interpreter.rs:105-349)
parse_content_definition(iter, g) ==
    parse_after_head(check_opening_paren(parse_name_and_type(iter), first_location(iter)), g)

(***************************************************************************)
(* Style maps (style.rs).                                                  *)
(***************************************************************************)
SLIDE_WIDTH == 1920
SLIDE_HEIGHT == 1080

TNamed(name) == <<"Named", name>>
TAnonymous(el_type) == <<"Anonymous", el_type>>
TSlide == <<"Slide">>

NoProperties == <<>>

\* StyleTarget::default_style (style.rs:29-76).  Its ElementType::Sized arm names
\* a variant the enum of ast.rs:132-141 does not have.
default_style(target) ==
    CASE target[1] = "Named" -> NoProperties
      [] target = TAnonymous("Padding") -> ("amount" :> PNumber(12))
      [] target = TAnonymous("Row") -> ("gap" :> PNumber(32))
      [] target = TAnonymous("Col") -> ("gap" :> PNumber(32))
      [] target = TAnonymous("Centre") -> NoProperties
      [] target = TAnonymous("Text") ->
            ("size" :> PNumber(32)) @@ ("font" :> PString("Liberation Serif")) @@
            ("fill" :> PColour(0, 0, 0))
      [] target = TAnonymous("Code") ->
            ("bg" :> PColour(30, 30, 30)) @@ ("fill" :> PColour(255, 255, 255)) @@
            ("margin" :> PNumber(20)) @@ ("size" :> PNumber(32)) @@
            ("font" :> PString("Liberation Mono")) @@ ("language" :> PString("rs"))
      [] target = TAnonymous("Image") -> NoProperties
      [] target = TAnonymous("ElNone") -> NoProperties
      [] target = TSlide ->
            ("width" :> PNumber(SLIDE_WIDTH)) @@ ("height" :> PNumber(SLIDE_HEIGHT)) @@
            ("margin" :> PNumber(64)) @@ ("bg" :> PColour(235, 218, 199))

\* StyleMap::new (style.rs:92-96)
NewStyleMap == <<>>

\* StyleMap::add_style (style.rs:98-100): HashMap::insert
add_style(style_map, target, properties) ==
    [t \in DOMAIN style_map \cup {target} |->
        IF t = target THEN properties ELSE style_map[t]]

\* A plausible slip: insert in place of entry().or_insert(), so the other map wins.
fill_in_overwriting(self, other) ==
    [t \in DOMAIN self \cup DOMAIN other |->
        IF t \notin DOMAIN other THEN self[t]
        ELSE LET existing_styles == IF t \in DOMAIN self THEN self[t] ELSE default_style(t)
             IN  [p \in DOMAIN existing_styles \cup DOMAIN other[t] |->
                    IF p \in DOMAIN other[t] THEN other[t][p] ELSE existing_styles[p]]]

\* A plausible slip: only the targets the map already has are filled.
fill_in_known_targets(self, other) ==
    [t \in DOMAIN self |->
        IF t \notin DOMAIN other THEN self[t]
        ELSE [p \in DOMAIN self[t] \cup DOMAIN other[t] |->
                IF p \in DOMAIN self[t] THEN self[t][p] ELSE other[t][p]]]

\* A plausible slip: the inner loop stops after the first property it supplies.
fill_in_one_property(self, other) ==
    [t \in DOMAIN self \cup DOMAIN other |->
        IF t \notin DOMAIN other THEN self[t]
        ELSE LET existing_styles == IF t \in DOMAIN self THEN self[t] ELSE default_style(t)
                 missing == DOMAIN other[t] \ DOMAIN existing_styles
             IN  IF missing = {} THEN existing_styles
                 ELSE [p \in DOMAIN existing_styles \cup {CHOOSE q \in missing : TRUE} |->
                         IF p \in DOMAIN existing_styles THEN existing_styles[p]
                         ELSE other[t][p]]]

\* StyleMap::fill_in (style.rs:102-112)
fill_in(self, other) ==
    [t \in DOMAIN self \cup DOMAIN other |->
        IF t \notin DOMAIN other THEN self[t]
        ELSE LET existing_styles == IF t \in DOMAIN self THEN self[t] ELSE default_style(t)
             IN  [p \in DOMAIN existing_styles \cup DOMAIN other[t] |->
                    IF p \in DOMAIN existing_styles THEN existing_styles[p] ELSE other[t][p]]]

\* impl Default for StyleMap (style.rs:122-137)
DefaultStyleMap ==
    [t \in {TSlide} \cup {TAnonymous(el) : el \in ElementTypes} |-> default_style(t)]

\* styles_for_target (style.rs:114-119), as a sequence of at most one map
styles_for_target(style_map, target) ==
    IF target \in DOMAIN style_map THEN <<style_map[target]>> ELSE <<>>

\* No typed extraction has been made yet.
NoExtraction == [kind |-> "None"]

(***************************************************************************)
(* The style parser (interpreter.rs:652-736).                              *)
(***************************************************************************)
\* The index of the first token of `tokens` that is `token`, or Len(tokens) + 1.
FirstIndexOf(tokens, token) ==
    IF \E i \in 1..Len(tokens) : tokens[i].token = token
    THEN CHOOSE i \in 1..Len(tokens) :
            tokens[i].token = token /\ \A j \in 1..(i - 1) : tokens[j].token # token
    ELSE Len(tokens) + 1

NonEmpty(slice) == IF slice = <<>> THEN <<>> ELSE <<slice>>

\* slice::split at every ClosingParamsParen, empty groups dropped
\* (interpreter.rs:655-657)
RECURSIVE SplitStyles(_)
SplitStyles(tokens) ==
    IF tokens = <<>> THEN <<>>
    ELSE NonEmpty(Take(tokens, FirstIndexOf(tokens, ClosingParamsParen) - 1))
           \o SplitStyles(Drop(tokens, FirstIndexOf(tokens, ClosingParamsParen)))

\* interpreter.rs:661-684: the target a directive starts with
style_target(ident_val) ==
    IF IsElementType(ident_val) THEN TAnonymous(Keyword[ident_val])
    ELSE IF ident_val = "slide" THEN TSlide
    ELSE TNamed(ident_val)

\* slice::chunks(4)
RECURSIVE Chunks4(_)
Chunks4(tokens) ==
    IF tokens = <<>> THEN <<>> ELSE <<Take(tokens, 4)>> \o Chunks4(Drop(tokens, 4))

\* One chunk of a directive (interpreter.rs:688-723): "Ok" with the pair, or
\* "Panic" with the error the panic reported (NoError for the slice index and
\* for the assert_eq).
property_of_chunk(slice) ==
    IF Len(slice) < 3 THEN [tag |-> "Panic", err |-> NoError]
    ELSE IF slice[2].token # ValueAssignment THEN [tag |-> "Panic", err |-> NoError]
    ELSE IF ~IsIdent(slice[1].token)
    THEN [tag |-> "Panic",
          err |-> ExpectedReason(slice[1].location, "a style directive", slice[1].token)]
    ELSE IF ~IsValue(slice[3].token)
    THEN [tag |-> "Panic",
          err |-> ExpectedReason(slice[3].location, "a parameter value", slice[3].token)]
    ELSE [tag |-> "Ok", err |-> NoError, name |-> slice[1].token[2], value |-> slice[3].token[2]]

\* The collect of interpreter.rs:686-725: a later pair of the same name replaces
\* an earlier one.
RECURSIVE collect_properties(_, _)
collect_properties(chunks, properties) ==
    IF chunks = <<>> THEN [tag |-> "Ok", err |-> NoError, properties |-> properties]
    ELSE LET pr == property_of_chunk(Head(chunks)) IN
         IF pr.tag # "Ok" THEN [tag |-> "Panic", err |-> pr.err, properties |-> properties]
         ELSE collect_properties(Tail(chunks),
                [n \in DOMAIN properties \cup {pr.name} |->
                    IF n = pr.name THEN pr.value ELSE properties[n]])

\* The loop over individual_styles (interpreter.rs:660-728)
RECURSIVE parse_styles(_, _)
parse_styles(individual_styles, style_map) ==
    IF individual_styles = <<>> THEN [tag |-> "Ok", err |-> NoError, style_map |-> style_map]
    ELSE
    LET individual_style == Head(individual_styles) IN
    IF ~IsIdent(individual_style[1].token)
    THEN [tag |-> "Err", style_map |-> style_map,
          err |-> ExpectedReason(individual_style[1].location, "a style target identifier",
                                 individual_style[1].token)]
    ELSE IF Len(individual_style) < 2   \* individual_style[2..]
    THEN [tag |-> "Panic", err |-> NoError, style_map |-> style_map]
    ELSE
    LET target == style_target(individual_style[1].token[2])
        props == collect_properties(Chunks4(Drop(individual_style, 2)), NoProperties)
    IN  IF props.tag # "Ok"
        THEN [tag |-> "Panic", err |-> props.err, style_map |-> style_map]
        ELSE parse_styles(Tail(individual_styles),
                          add_style(style_map, target, props.properties))

(***************************************************************************)
(* load (interpreter.rs:405-743).                                          *)
(***************************************************************************)
\* current_slide_tokens never holds an OpeningSlideParen (interpreter.rs:627-631)
WithoutOpeningSlideParens(tokens) ==
    Flatten([i \in 1..Len(tokens) |->
                IF tokens[i].token = OpeningSlideParen THEN <<>> ELSE <<tokens[i]>>])

\* interpreter.rs:622-641: one group per ClosingSlideParen, of the tokens since
\* the one before; what follows the last ClosingSlideParen is in no group.
RECURSIVE GroupTokens(_)
GroupTokens(tokens) ==
    IF FirstIndexOf(tokens, ClosingSlideParen) > Len(tokens) THEN <<>>
    ELSE <<WithoutOpeningSlideParens(Take(tokens, FirstIndexOf(tokens, ClosingSlideParen) - 1))>>
           \o GroupTokens(Drop(tokens, FirstIndexOf(tokens, ClosingSlideParen)))

\* The end of a turn of the loop (interpreter.rs:729-739)
slide_with_styles(content, parsed) ==
    IF parsed.tag # "Ok"
    THEN [tag |-> parsed.tag, err |-> parsed.err, global |-> content.global,
          partial |-> parsed.style_map]
    ELSE [tag |-> "Ok", err |-> NoError, partial |-> parsed.style_map,
          global |-> push_new_slide(content.global, content.id,
                                    fill_in(parsed.style_map, DefaultStyleMap))]

\* A plausible slip: style_map is declared outside the loop, so the directives
\* of a slide are added to the styles of the slide before it.
slide_of_content_inheriting(content) ==
    IF content.tag # "Ok"
    THEN [tag |-> "Panic", err |-> content.err, global |-> content.global,
          partial |-> NewStyleMap]
    ELSE IF content.rest = <<>>
    THEN [tag |-> "Ok", err |-> NoError, partial |-> NewStyleMap,
          global |-> push_new_slide(content.global, content.id, DefaultStyleMap)]
    ELSE slide_with_styles(content,
            parse_styles(SplitStyles(content.rest),
                         IF content.global.slides = <<>> THEN NewStyleMap
                         ELSE content.global.slides[Len(content.global.slides)].styles))

\* What a turn does with the result of parse_content_definition
\* (interpreter.rs:645-739)
slide_of_content(content) ==
    IF content.tag # "Ok"    \* .map_err(|err| { eprintln!; panic!() }) at :645-650
    THEN [tag |-> "Panic", err |-> content.err, global |-> content.global,
          partial |-> NewStyleMap]
    ELSE IF content.rest = <<>>    \* remaining_style_tokens
    THEN [tag |-> "Ok", err |-> NoError, partial |-> NewStyleMap,
          global |-> push_new_slide(content.global, content.id, DefaultStyleMap)]
    ELSE slide_with_styles(content, parse_styles(SplitStyles(content.rest), NewStyleMap))

\* One turn of the loop over grouped_tokens (interpreter.rs:643-740).  partial is
\* style_map before fill_in (the empty map when there are no style tokens).
load_slide(slide_tokens, g) == slide_of_content(parse_content_definition(slide_tokens, g))

(***************************************************************************)
(* The sources load is given.                                              *)
(*                                                                         *)
(* Documents are written as trees and rendered to text in the format of    *)
(* the tests of interpreter.rs; further sources are those tests' texts     *)
(* themselves, texts with one lexeme of a document removed or replaced,    *)
(* and every short text over a small alphabet.                             *)
(***************************************************************************)
Spell ==
    ("none" :> <<"n", "o", "n", "e">>) @@
    ("text" :> <<"t", "e", "x", "t">>) @@
    ("code" :> <<"c", "o", "d", "e">>) @@
    ("img" :> <<"i", "m", "g">>) @@
    ("row" :> <<"r", "o", "w">>) @@
    ("col" :> <<"c", "o", "l">>) @@
    ("centre" :> <<"c", "e", "n", "t", "r", "e">>) @@
    ("padding" :> <<"p", "a", "d", "d", "i", "n", "g">>) @@
    ("joop" :> <<"j", "o", "o", "p">>) @@
    ("slide" :> <<"s", "l", "i", "d", "e">>) @@
    ("height" :> <<"h", "e", "i", "g", "h", "t">>) @@
    ("width" :> <<"w", "i", "d", "t", "h">>) @@
    ("amount" :> <<"a", "m", "o", "u", "n", "t">>) @@
    ("size" :> <<"s", "i", "z", "e">>) @@
    ("fill" :> <<"f", "i", "l", "l">>) @@
    ("500" :> <<"5", "0", "0">>) @@
    ("10" :> <<"1", "0">>) @@
    ("1" :> <<"1">>) @@
    ("2" :> <<"2">>) @@
    ("3" :> <<"3">>) @@
    ("8" :> <<"8">>) @@
    ("5" :> <<"5">>) @@
    ("#ff0000" :> <<"#", "f", "f", "0", "0", "0", "0">>) @@
    ("::" :> <<":", ":">>) @@
    ("(" :> <<"(">>) @@
    (")" :> <<")">>) @@
    ("{" :> <<"{">>) @@
    ("}" :> <<"}">>) @@
    (":" :> <<":">>) @@
    ("," :> <<",">>) @@
    ("[" :> <<"[">>) @@
    ("]" :> <<"]">>)

\* A node of a document tree: a keyword, a name ("" for none), the text of a
\* leaf's string literal and the children of a container.
Node(ty, name, arg, kids) == [ty |-> ty, name |-> name, arg |-> arg, kids |-> kids]

Leaves ==
    { Node("none", "", <<>>, <<>>),
      Node("text", "", <<"a", " ", "b">>, <<>>),
      Node("img", "joop", <<"p">>, <<>>) }

RECURSIVE Trees(_)
RECURSIVE Forests(_)
\* the trees of exactly n nodes
Trees(n) ==
    (IF n = 1 THEN Leaves ELSE {})
      \cup { Node(ty, "", <<>>, f) : ty \in {"row", "col"}, f \in Forests(n - 1) }
      \cup (IF n < 2 THEN {}
            ELSE { Node(ty, "", <<>>, <<t>>) : ty \in {"centre", "padding"}, t \in Trees(n - 1) })
\* the sequences of trees of n nodes in all
Forests(n) ==
    IF n = 0 THEN {<<>>}
    ELSE UNION { { <<t>> \o f : t \in Trees(k), f \in Forests(n - k) } : k \in 1..n }

ColInRow ==
    Node("row", "", <<>>,
         << Node("text", "", <<"a">>, <<>>),
            Node("col", "", <<>>, << Node("text", "", <<"b">>, <<>>),
                                      Node("text", "", <<"c">>, <<>>) >>) >>)

\* A style directive: the target word and the (name, value) words; trailing
\* says whether a "," follows the last pair.
Directive(target, props, trailing) == [target |-> target, props |-> props, trailing |-> trailing]

Directives ==
    { Directive("slide", << <<"height", "500">> >>, FALSE),
      Directive("slide", << <<"width", "1">> >>, FALSE),
      Directive("padding", << <<"amount", "10">> >>, TRUE),
      Directive("joop", << <<"size", "3">> >>, FALSE),
      Directive("text", << <<"fill", "#ff0000">>, <<"size", "8">> >>, FALSE) }

RECURSIVE DirectiveSeqs(_)
DirectiveSeqs(n) ==
    IF n = 0 THEN {<<>>}
    ELSE DirectiveSeqs(n - 1)
           \cup { Append(ds, d) : ds \in { x \in DirectiveSeqs(n - 1) : Len(x) = n - 1 },
                                  d \in Directives }

AuthoredSlide(content, styles) == [content |-> content, styles |-> styles]

\* The documents: every sequence of style-less slides of MaxNodes nodes in all,
\* the tree of the col_in_row test, and one slide with up to MaxStyles directives.
Documents ==
    UNION { { [i \in 1..Len(f) |-> AuthoredSlide(f[i], <<>>)] : f \in Forests(n) }
            : n \in 1..MaxNodes }
      \cup { << AuthoredSlide(ColInRow, <<>>) >> }
      \cup { << AuthoredSlide(Node("padding", "", <<>>, << Node("text", "joop", <<"x">>, <<>>) >>),
                              ds) >> : ds \in DirectiveSeqs(MaxStyles) }

\* The lexemes of a tree, of a directive, of a slide, of a document.
RECURSIVE TreeLexemes(_)
RECURSIVE KidLexemes(_)
KidLexemes(kids) ==
    IF kids = <<>> THEN <<>>
    ELSE IF Len(kids) = 1 THEN TreeLexemes(kids[1])
    ELSE TreeLexemes(kids[1]) \o <<Spell[","]>> \o KidLexemes(Tail(kids))
TreeLexemes(t) ==
    (IF t.name = "" THEN <<>> ELSE <<Spell[t.name], Spell["::"]>>)
      \o <<Spell[t.ty], Spell["("]>>
      \o (IF t.ty \in {"text", "code", "img"} THEN << <<Quote>> \o t.arg \o <<Quote>> >>
          ELSE KidLexemes(t.kids))
      \o <<Spell[")"]>>

RECURSIVE PropLexemes(_, _)
PropLexemes(props, trailing) ==
    IF props = <<>> THEN <<>>
    ELSE <<Spell[props[1][1]], Spell[":"], Spell[props[1][2]]>>
           \o (IF Len(props) > 1 \/ trailing THEN <<Spell[","]>> ELSE <<>>)
           \o PropLexemes(Tail(props), trailing)

DirectiveLexemes(d) ==
    <<Spell[d.target], Spell["{"]>> \o PropLexemes(d.props, d.trailing) \o <<Spell["}"]>>

SlideLexemes(sl) ==
    <<Spell["["]>> \o TreeLexemes(sl.content)
      \o Flatten([i \in 1..Len(sl.styles) |-> DirectiveLexemes(sl.styles[i])])
      \o <<Spell["]"]>>

DocumentLexemes(doc) == Flatten([i \in 1..Len(doc) |-> SlideLexemes(doc[i])])

\* The text of a sequence of lexemes: one space between two lexemes.
JoinLexemes(lexemes) ==
    Flatten([i \in 1..Len(lexemes) |->
                IF i = 1 THEN lexemes[i] ELSE <<" ">> \o lexemes[i]])

RenderDocument(doc) == JoinLexemes(DocumentLexemes(doc))

\* The texts of the tests of interpreter.rs and of the specification's examples.
ExNone ==
    <<"[", " ", "n", "o", "n", "e", "(", ")", " ", "]">>
ExNamedNone ==
    <<"[", " ", "j", "o", "o", "p", " ", ":", ":", " ", "n", "o", "n", "e", "(", ")", " ", "]">>
ExNamedText ==
    <<"[", " ", "j", "o", "o", "p", " ", ":", ":", " ", "t", "e", "x", "t", "(", Quote, "j", "a", "k", "o", "b", " ", "e", "n", " ", "z", "o", "n", "e", "n", Quote, ")", " ", "]">>
ExColInRow ==
    <<"[", " ", "r", "o", "w", " ", "(", " ", "t", "e", "x", "t", "(", Quote, "j", "o", "o", "p", Quote, ")", ",", " ", "c", "o", "l", " ", "(", " ", "t", "e", "x", "t", "(", Quote, "i", "n", " ", "k", "o", "l", "o", "m", Quote, ")", ",", " ", "t", "e", "x", "t", "(", Quote, "i", "n", " ", "k", "o", "l", "o", "m", " ", "2", Quote, ")", " ", ")", " ", ")", " ", "]">>
ExStyled ==
    <<"[", " ", "p", "a", "d", "d", "i", "n", "g", " ", "(", " ", "t", "e", "x", "t", " ", "(", Quote, "j", "o", "o", "p", Quote, ")", " ", ")", " ", "p", "a", "d", "d", "i", "n", "g", " ", "{", " ", "a", "m", "o", "u", "n", "t", ":", " ", "1", "0", ",", " ", "}", " ", "]">>
ExPartialStyle ==
    <<"[", " ", "n", "o", "n", "e", " ", "(", ")", " ", "s", "l", "i", "d", "e", " ", "{", " ", "h", "e", "i", "g", "h", "t", ":", " ", "5", "0", "0", " ", "}", " ", "]">>
ExMissingParens ==
    <<"[", " ", "j", "o", "o", "p", " ", ":", ":", " ", "n", "o", "n", "e", " ", "]">>
ExDuplicateStyle ==
    <<"[", " ", "n", "o", "n", "e", "(", ")", " ", "s", "l", "i", "d", "e", "{", "w", "i", "d", "t", "h", ":", "1", "}", " ", "s", "l", "i", "d", "e", "{", "h", "e", "i", "g", "h", "t", ":", "2", "}", " ", "]">>
ExStringPunctuation ==
    <<"[", " ", "t", "e", "x", "t", "(", Quote, "a", ",", " ", "b", " ", "(", "c", ")", Quote, ")", " ", "]">>
ExTrailingComma ==
    <<"[", " ", "r", "o", "w", "(", "t", "e", "x", "t", "(", Quote, "a", Quote, ")", ",", ")", " ", "]">>
ExKeywordAsName ==
    <<"[", " ", "i", "m", "g", " ", ":", ":", " ", "n", "o", "n", "e", "(", ")", " ", "]">>
ExTwoInCentre ==
    <<"[", " ", "c", "e", "n", "t", "r", "e", "(", "t", "e", "x", "t", "(", Quote, "a", Quote, ")", " ", "t", "e", "x", "t", "(", Quote, "b", Quote, ")", ")", " ", "]">>
ExImage ==
    <<"[", " ", "n", "o", "n", "e", "(", ")", " ", "]", Newline, "[", " ", "i", "m", "g", "(", Quote, "p", Quote, ")", " ", "]">>
ExCode ==
    <<"[", " ", "c", "o", "d", "e", "(", Quote, "c", Quote, ")", " ", "j", "o", "o", "p", " ", "{", " ", "s", "i", "z", "e", ":", " ", "3", " ", "}", " ", "]">>
ExIndentedComment ==
    <<"[", " ", "n", "o", "n", "e", "(", ")", " ", "]", Newline, " ", " ", "/", "/", " ", "[", " ", "n", "o", "n", "e", "(", ")", " ", "]", Newline, "/", "/", " ", "[", " ", "n", "o", "n", "e", "(", ")", " ", "]">>
ExBadStyleTarget ==
    <<"[", " ", "n", "o", "n", "e", "(", ")", " ", "]", Newline, "[", " ", "n", "o", "n", "e", "(", ")", " ", "5", " ", "{", " ", "}", " ", "]">>

\* Two slides, each with a style directive of its own.
ExTwoStyled ==
    <<"[", " ", "n", "o", "n", "e", "(", ")", " ", "s", "l", "i", "d", "e", " ", "{", " ", "w", "i", "d", "t", "h", ":", " ", "1", " ", "}", " ", "]", Newline, "[", " ", "c", "e", "n", "t", "r", "e", "(", "n", "o", "n", "e", "(", ")", ")", " ", "t", "e", "x", "t", " ", "{", " ", "s", "i", "z", "e", ":", " ", "8", " ", "}", " ", "]">>

ExampleSources ==
    {ExTwoStyled, ExNone, ExNamedNone, ExNamedText, ExColInRow, ExStyled, ExPartialStyle, ExMissingParens, ExDuplicateStyle, ExStringPunctuation, ExTrailingComma, ExKeywordAsName, ExTwoInCentre, ExImage, ExCode, ExIndentedComment, ExBadStyleTarget}

\* Texts with one lexeme of a small document removed or replaced.
BrokenBases ==
    { << AuthoredSlide(Node("none", "joop", <<>>, <<>>), <<>>) >>,
      << AuthoredSlide(Node("row", "", <<>>, << Node("none", "", <<>>, <<>>),
                                                 Node("text", "", <<"a">>, <<>>) >>), <<>>) >>,
      << AuthoredSlide(Node("padding", "", <<>>, << Node("none", "", <<>>, <<>>) >>),
                       << Directive("slide", << <<"height", "500">> >>, FALSE) >>) >>,
      << AuthoredSlide(Node("none", "", <<>>, <<>>), <<>>),
         AuthoredSlide(Node("text", "joop", <<"a">>, <<>>),
                       << Directive("joop", << <<"size", "3">> >>, TRUE) >>) >> }

Replacements == { Spell["none"], Spell["::"], Spell["5"], Spell["("], Spell[","] }

BrokenSources ==
    UNION { LET lx == DocumentLexemes(doc) IN
            { JoinLexemes(Take(lx, i - 1) \o Drop(lx, i)) : i \in 1..Len(lx) }
              \cup { JoinLexemes(Take(lx, i - 1) \o <<r>> \o Drop(lx, i))
                     : i \in 1..Len(lx), r \in Replacements }
            : doc \in BrokenBases }

\* Every text of at most MaxLexLen characters over LexAlphabet.
LexAlphabet == { Quote, "a", " ", ",", "/", Newline }

ShortSources == UNION { [1..n -> LexAlphabet] : n \in 0..MaxLexLen }

Raw == <<"Raw">>
Authored(doc) == <<"Document", doc>>

Inputs ==
    { [authored |-> Authored(doc), source |-> RenderDocument(doc)] : doc \in Documents }
      \cup { [authored |-> Raw, source |-> src]
             : src \in ExampleSources \cup BrokenSources \cup ShortSources }

(***************************************************************************)
(* The state machine: one call of load on a fresh GlobalState              *)
(* (main.rs:58-59, 91-92, 165-166).                                        *)
(***************************************************************************)
Init ==
    /\ \E input \in Inputs :
          /\ source = input.source
          /\ authored = input.authored
    /\ pc = "lex"
    /\ contiguous_tokens = <<>>
    /\ grouped_tokens = <<>>
    /\ slide_idx = 0
    /\ global = NewGlobalState
    /\ partial_styles = <<>>
    /\ result = "Running"
    /\ err = NoError
    /\ stylemap = NewStyleMap
    /\ filled = FALSE
    /\ extracted = NoExtraction
    /\ NotPresenting

\* interpreter.rs:406-620
Lex ==
    /\ pc = "lex"
    /\ contiguous_tokens' = Tokenize(source)
    /\ pc' = "group"
    /\ UNCHANGED <<source, authored, grouped_tokens, slide_idx, global, partial_styles,
                   result, err>>
    /\ UNCHANGED <<style_vars, present_vars>>

\* interpreter.rs:622-641
Group ==
    /\ pc = "group"
    /\ grouped_tokens' = GroupTokens(contiguous_tokens)
    /\ pc' = "slides"
    /\ UNCHANGED <<source, authored, contiguous_tokens, slide_idx, global, partial_styles,
                   result, err>>
    /\ UNCHANGED <<style_vars, present_vars>>

\* What load keeps of a turn of its loop: a panic and the only return of Err
\* (interpreter.rs:672-682) both end it.
EndOfTurn(loaded) ==
    /\ global' = loaded.global
    /\ err' = loaded.err
    /\ IF loaded.tag = "Ok"
       THEN /\ partial_styles' = Append(partial_styles, loaded.partial)
            /\ slide_idx' = slide_idx + 1
            /\ UNCHANGED <<pc, result>>
       ELSE /\ result' = loaded.tag
            /\ pc' = "done"
            /\ UNCHANGED <<partial_styles, slide_idx>>

\* interpreter.rs:643-740, one slide
LoadSlide ==
    /\ pc = "slides"
    /\ slide_idx < Len(grouped_tokens)
    /\ EndOfTurn(load_slide(grouped_tokens[slide_idx + 1], global))
    /\ UNCHANGED <<source, authored, contiguous_tokens, grouped_tokens>>
    /\ UNCHANGED <<style_vars, present_vars>>

\* interpreter.rs:742
ReturnOk ==
    /\ pc = "slides"
    /\ slide_idx = Len(grouped_tokens)
    /\ result' = "Ok"
    /\ pc' = "done"
    /\ UNCHANGED <<source, authored, contiguous_tokens, grouped_tokens, slide_idx, global,
                   partial_styles, err>>
    /\ UNCHANGED <<style_vars, present_vars>>

Next == Lex \/ Group \/ LoadSlide \/ ReturnOk

Spec == Init /\ [][Next]_vars

(***************************************************************************)
(* Properties of the loader.                                               *)
(***************************************************************************)
\* The ids an element's data refers to (ast.rs:65-77).
ChildrenOf(elem) ==
    CASE elem.data[1] \in {"Row", "Col"} -> elem.data[2]
      [] elem.data[1] \in {"Centre", "Padding"} -> <<elem.data[2]>>
      [] OTHER -> <<>>

\* The authored document, when the source was rendered from one.
IsAuthored == authored[1] = "Document"

\* C1: after load of a well-formed source into a fresh GlobalState (load
\* returned Ok), the ids of the elements in push order strictly increase, the
\* first pushed element has id 1, and 0 is the id of no element and of no slide:
\* get_element_by_id(0) is None.
C1_IdsIncreaseFromOne ==
    result = "Ok" =>
        /\ \A i \in 1..(Len(global.elements) - 1) :
              global.elements[i].id < global.elements[i + 1].id
        /\ global.elements # <<>> => global.elements[1].id = 1
        /\ \A i \in 1..Len(global.elements) : global.elements[i].id # 0
        /\ \A i \in 1..Len(global.slides) : global.slides[i].id # 0
        /\ get_element_by_id(global, 0) = <<>>

\* C1, its case: a loaded document of several slides and several elements.
C1_Witness ==
    result = "Ok" /\ Len(global.slides) >= 2 /\ Len(global.elements) >= 2

\* C2: in every state of the arena during and after load, every id stored as a
\* child inside a Row, Col, Centre or Padding is the id of an element of the
\* arena, pushed before the parent and of a smaller id than the parent's.
C2_ChildrenPushedBeforeParent ==
    \A i \in 1..Len(global.elements) :
        \A k \in 1..Len(ChildrenOf(global.elements[i])) :
            /\ get_element_by_id(global, ChildrenOf(global.elements[i])[k]) # <<>>
            /\ ChildrenOf(global.elements[i])[k] < global.elements[i].id
            /\ \E j \in 1..(i - 1) :
                  global.elements[j].id = ChildrenOf(global.elements[i])[k]

\* C2, its case: load is still running and the arena holds a parent of two
\* children.
C2_Witness ==
    /\ pc = "slides"
    /\ \E i \in 1..Len(global.elements) : Len(ChildrenOf(global.elements[i])) >= 2

\* The element of id `id` has the type of the authored tree t and as many
\* children as t has child definitions, each built from its own definition.
RECURSIVE BuiltFrom(_, _, _)
BuiltFrom(g, id, t) ==
    /\ get_element_by_id(g, id) # <<>>
    /\ get_element_by_id(g, id)[1].el_type = Keyword[t.ty]
    /\ Len(ChildrenOf(get_element_by_id(g, id)[1])) = Len(t.kids)
    /\ \A k \in 1..Len(t.kids) :
          BuiltFrom(g, ChildrenOf(get_element_by_id(g, id)[1])[k], t.kids[k])

\* C3: every row and col has as many children as its body has top-level child
\* definitions: a comma inside a child's own argument list never splits the
\* parent's list.  The document of the col_in_row test gives a Row of exactly
\* two children, the second a Col of exactly two children.
C3_ChildrenAreTopLevelDefinitions ==
    /\ (result = "Ok" /\ IsAuthored) =>
          /\ Len(global.slides) = Len(authored[2])
          /\ \A i \in 1..Len(global.slides) :
                BuiltFrom(global, global.slides[i].content, authored[2][i].content)
    /\ (result = "Ok" /\ source = ExColInRow) =>
          /\ Len(global.elements) = 5
          /\ global.elements[5].data = DRow(<<1, 4>>)
          /\ global.elements[4].data = DCol(<<2, 3>>)

\* C3, its case: the row holding a text and a col of two texts is loaded.
C3_Witness ==
    /\ result = "Ok"
    /\ authored = Authored(<< AuthoredSlide(ColInRow, <<>>) >>)
    /\ Len(global.elements) = 5
    /\ global.elements[5].data[1] = "Row"

\* C4: fill-in against the defaults never overwrites a property the user gave
\* and supplies every one left out: for every target of both maps, each
\* property of the partial map keeps its value and each default property
\* missing from it takes the default value.
C4_FillInKeepsAndSupplies ==
    \A i \in 1..Len(global.slides) :
        \A t \in DOMAIN partial_styles[i] \cap DOMAIN DefaultStyleMap :
            /\ t \in DOMAIN global.slides[i].styles
            /\ \A p \in DOMAIN partial_styles[i][t] :
                  /\ p \in DOMAIN global.slides[i].styles[t]
                  /\ global.slides[i].styles[t][p] = partial_styles[i][t][p]
            /\ \A p \in DOMAIN DefaultStyleMap[t] \ DOMAIN partial_styles[i][t] :
                  /\ p \in DOMAIN global.slides[i].styles[t]
                  /\ global.slides[i].styles[t][p] = DefaultStyleMap[t][p]

\* C4, its case: slide { height: 500 } resolved to height 500 and width 1920.
C4_Witness ==
    \E i \in 1..Len(global.slides) :
        /\ TSlide \in DOMAIN partial_styles[i]
        /\ DOMAIN partial_styles[i][TSlide] = {"height"}
        /\ global.slides[i].styles[TSlide]["height"] = PNumber(500)
        /\ global.slides[i].styles[TSlide]["width"] = PNumber(SLIDE_WIDTH)

\* Some slide of the document has two style directives of one target.
HasRepeatedTarget(doc) ==
    \E i \in 1..Len(doc) :
        \E j, k \in 1..Len(doc[i].styles) :
            j < k /\ doc[i].styles[j].target = doc[i].styles[k].target

\* C5, as claimed: within one slide, a second style directive for a target the
\* in-progress style map already holds makes load fail with a
\* duplicate-style-definition error.
C5_DuplicateStyleFails ==
    (/\ pc = "done"
     /\ \/ source = ExDuplicateStyle
        \/ IsAuthored /\ HasRepeatedTarget(authored[2]))
        => /\ result # "Ok"
           /\ err.kind = "DuplicateStyleDefinition"

\* C6, as claimed: load ends in one of two ways, Ok or a returned Err; a parse
\* failure is never a process abort.
C6_OkOrReturnedErr ==
    pc = "done" => result \in {"Ok", "Err"}

\* C7, as claimed: when load stops with a parse error, the arena and the slide
\* sequence of the GlobalState hold nothing that load produced.
C7_NoPartialDocument ==
    result = "Err" => global.elements = <<>> /\ global.slides = <<>>

\* The content of a slide starts with a type keyword, anonymous or after
\* `name ::`, and no "(" follows the keyword.
KeywordAt(iter, i) ==
    Len(iter) >= i /\ IsIdent(iter[i].token) /\ IsElementType(iter[i].token[2])

NoParenAt(iter, i) == Len(iter) < i \/ iter[i].token # OpeningArgsParen

NamedKeywordWithoutParen(iter) ==
    /\ Len(iter) >= 2
    /\ IsIdent(iter[1].token)
    /\ ~IsElementType(iter[1].token[2])
    /\ iter[2].token = Definition
    /\ KeywordAt(iter, 3)
    /\ NoParenAt(iter, 4)

AnonymousKeywordWithoutParen(iter) == KeywordAt(iter, 1) /\ NoParenAt(iter, 2)

\* The keyword that is not followed by "(" is followed by "::".
KeywordBeforeDefinition(iter) ==
    KeywordAt(iter, 1) /\ Len(iter) >= 2 /\ iter[2].token = Definition

ExpectsOpeningArgsParen(e) ==
    /\ e.kind \in {"ExpectedToken", "UnexpectedFileEndWithToken"}
    /\ e.expected = OpeningArgsParen

\* The slide the loop at interpreter.rs:643 takes next.
TurnOf(iter) ==
    pc = "slides" /\ slide_idx < Len(grouped_tokens) /\ iter = grouped_tokens[slide_idx + 1]

\* The turn fails with an error that expected "(", and pushes no element.
FailsExpectingParen ==
    /\ result' # "Ok"
    /\ pc' = "done"
    /\ ExpectsOpeningArgsParen(err')
    /\ global'.elements = global.elements

\* C8, as claimed: a slide whose content is a named or anonymous type keyword
\* not followed by "(" fails with ExpectedToken or UnexpectedFileEndWithToken
\* whose expected token is "(", and no element is pushed for it.
C8_MissingParenExpectsParen ==
    [][\A k \in 1..Len(grouped_tokens) :
          (/\ TurnOf(grouped_tokens[k])
           /\ k = slide_idx + 1
           /\ \/ NamedKeywordWithoutParen(grouped_tokens[k])
              \/ AnonymousKeywordWithoutParen(grouped_tokens[k]))
             => FailsExpectingParen]_vars

\* C8, amended: the same, for a keyword that is not followed by "(" and, when
\* it is the first token of the content, not followed by "::" either (then the
\* error is UseOfContentTypeName).
C8_MissingParenNoDefinitionExpectsParen ==
    [][\A k \in 1..Len(grouped_tokens) :
          (/\ TurnOf(grouped_tokens[k])
           /\ k = slide_idx + 1
           /\ \/ NamedKeywordWithoutParen(grouped_tokens[k])
              \/ /\ AnonymousKeywordWithoutParen(grouped_tokens[k])
                 /\ ~KeywordBeforeDefinition(grouped_tokens[k]))
             => FailsExpectingParen]_vars

\* C8, its case: load stopped at `name :: keyword` without "(", and at an
\* anonymous keyword without "(", reporting that "(" was expected.
C8_Witness ==
    /\ pc = "done"
    /\ result # "Ok"
    /\ slide_idx < Len(grouped_tokens)
    /\ NamedKeywordWithoutParen(grouped_tokens[slide_idx + 1])
    /\ ExpectsOpeningArgsParen(err)

\* The texts between the double quotes of the characters chars: the quotes pair
\* up from the left, and the text of a pair is every character between the two.
QuoteIndices(chars) == {i \in 1..Len(chars) : chars[i].c = Quote}

OpensLiteral(quotes, i) == i \in quotes /\ Cardinality({j \in quotes : j < i}) % 2 = 0

ClosingQuote(chars, quotes, i) ==
    IF \E j \in quotes : j > i
    THEN CHOOSE j \in quotes : j > i /\ \A k \in quotes : k > i => j <= k
    ELSE Len(chars) + 1

LiteralAt(chars, quotes, i) ==
    IF OpensLiteral(quotes, i)
    THEN <<ConcatStr([k \in 1..(ClosingQuote(chars, quotes, i) - i - 1) |-> chars[i + k].c])>>
    ELSE <<>>

LiteralsWith(chars, quotes) ==
    Flatten([i \in 1..Len(chars) |-> LiteralAt(chars, quotes, i)])

Literals(chars) == LiteralsWith(chars, QuoteIndices(chars))

\* The contents of the Value(String) tokens, in order.
StringValues(tokens) ==
    Flatten([i \in 1..Len(tokens) |->
                IF IsStringValue(tokens[i].token) THEN <<tokens[i].token[2][2]>> ELSE <<>>])

\* C9, as claimed: for every string literal of the source the lexer emits one
\* Value(String) token whose content is exactly the characters between the
\* opening and the closing double quote, whatever they are, and no delimiter is
\* a token of the output.
C9_StringsVerbatim ==
    (pc # "lex" /\ Cardinality(QuoteIndices(AllCharacters(source))) % 2 = 0) =>
        /\ StringValues(contiguous_tokens) = Literals(AllCharacters(source))
        /\ \A i \in 1..Len(contiguous_tokens) : contiguous_tokens[i].token # StringDelim

\* C10: the resolved style map of every loaded slide is complete: it holds the
\* Slide target and Anonymous(t) for every element type t, each with at least
\* every default property name, and every target the user gave; a slide without
\* style directives has exactly the global default map.
C10_ResolvedStylesComplete ==
    \A i \in 1..Len(global.slides) :
        /\ \A t \in {TSlide} \cup {TAnonymous(el) : el \in ElementTypes} :
              /\ t \in DOMAIN global.slides[i].styles
              /\ DOMAIN default_style(t) \subseteq DOMAIN global.slides[i].styles[t]
        /\ DOMAIN partial_styles[i] \subseteq DOMAIN global.slides[i].styles
        /\ DOMAIN partial_styles[i] = {} => global.slides[i].styles = DefaultStyleMap

\* C10, its case: a loaded slide whose directives name a target of the user's,
\* and a loaded slide without directives.
C10_Witness ==
    /\ result = "Ok"
    /\ \E i \in 1..Len(global.slides) :
          /\ TNamed("joop") \in DOMAIN partial_styles[i]
          /\ TNamed("joop") \in DOMAIN global.slides[i].styles
          /\ TSlide \in DOMAIN global.slides[i].styles

(***************************************************************************)
(* The consumers of a loaded document: the traversal of ast.rs, the typed  *)
(* extraction of style.rs and the style lookups of render.rs.              *)
(***************************************************************************)
\* GlobalState::traverse (ast.rs:61-80).  "Panic" when an id is not present
\* (the unwrap_or_else of :62-64), also when a descendant's is not.
TraverseOk(ids) == [tag |-> "Ok", ids |-> ids]
TraversePanic == [tag |-> "Panic", ids |-> <<>>]

\* A plausible slip: the id is put after its descendants.
traverse_concat_root_last(id, subtrees) ==
    IF \E k \in 1..Len(subtrees) : subtrees[k].tag = "Panic" THEN TraversePanic
    ELSE TraverseOk(Flatten([k \in 1..Len(subtrees) |-> subtrees[k].ids]) \o <<id>>)

\* ast.rs:79: [[id].as_slice(), all_children.as_slice()].concat()
traverse_concat(id, subtrees) ==
    IF \E k \in 1..Len(subtrees) : subtrees[k].tag = "Panic" THEN TraversePanic
    ELSE TraverseOk(<<id>> \o Flatten([k \in 1..Len(subtrees) |-> subtrees[k].ids]))

RECURSIVE traverse(_, _)
traverse_found(g, id, children) ==
    traverse_concat(id, [k \in 1..Len(children) |-> traverse(g, children[k])])

traverse(g, id) ==
    IF get_element_by_id(g, id) = <<>> THEN TraversePanic
    ELSE traverse_found(g, id, ChildrenOf(get_element_by_id(g, id)[1]))

\* GlobalState::get_slide_elements (ast.rs:82-88)
get_slide_elements(g, slide) ==
    Flatten([k \in 1..Len(traverse(g, slide.content).ids) |->
                get_element_by_id(g, traverse(g, slide.content).ids[k])])

\* StyleTarget::reify (style.rs:78-83)
reify(elem) ==
    IF elem.name = NoName THEN TAnonymous(elem.el_type) ELSE TNamed(elem.name[2])

\* PropertyValue::SizeSpec (style.rs:18); the lexer makes no such value.
PSizeSpec(spec) == <<"SizeSpec", spec>>

\* The outcome of a typed extraction: the payload returned (a sequence of one
\* value), or the panic and its message.
Extracted(payload) == [tag |-> "Ok", value |-> <<payload>>, message |-> <<>>]
NotFound == [tag |-> "Panic", value |-> <<>>, message |-> <<"was not found in style">>]
WrongType(pv) ==
    [tag |-> "Panic", value |-> <<>>, message |-> <<"was found, but is of type", pv[1]>>]

\* A plausible slip: a missing number is read as 0 (unwrap_or_default).
extract_number_or_zero(map, property) ==
    IF property \notin DOMAIN map THEN Extracted(0)
    ELSE IF map[property][1] = "Number" THEN Extracted(map[property][2])
    ELSE WrongType(map[property])

\* extract_number (style.rs:139-159)
extract_number(map, property) ==
    IF property \notin DOMAIN map THEN NotFound
    ELSE IF map[property][1] = "Number" THEN Extracted(map[property][2])
    ELSE WrongType(map[property])

\* extract_string (style.rs:161-181)
extract_string(map, property) ==
    IF property \notin DOMAIN map THEN NotFound
    ELSE IF map[property][1] = "String" THEN Extracted(map[property][2])
    ELSE WrongType(map[property])

\* extract_boolean (style.rs:183-201)
extract_boolean(map, property) ==
    IF property \notin DOMAIN map THEN NotFound
    ELSE IF map[property][1] = "Boolean" THEN Extracted(map[property][2])
    ELSE WrongType(map[property])

\* extract_colour (style.rs:203-221)
extract_colour(map, property) ==
    IF property \notin DOMAIN map THEN NotFound
    ELSE IF map[property][1] = "Colour"
    THEN Extracted(<<map[property][2], map[property][3], map[property][4]>>)
    ELSE WrongType(map[property])

\* extract_size_spec (style.rs:223-241)
extract_size_spec(map, property) ==
    IF property \notin DOMAIN map THEN NotFound
    ELSE IF map[property][1] = "SizeSpec" THEN Extracted(map[property][2])
    ELSE WrongType(map[property])

\* What the renderer reads of the style of a Text element (render.rs:94, 220,
\* 221) and of a Code element (render.rs:94, 266, 278, 279, 281): the property
\* and the extraction it is read with.
RendererReads(el_type) ==
    IF el_type = "Text"
    THEN {<<"font", "String">>, <<"size", "Number">>, <<"fill", "Colour">>}
    ELSE IF el_type = "Code"
    THEN {<<"font", "String">>, <<"bg", "Colour">>, <<"size", "Number">>,
          <<"fill", "Colour">>, <<"margin", "Number">>}
    ELSE {}

RendererRead(map, read) ==
    CASE read[2] = "String" -> extract_string(map, read[1])
      [] read[2] = "Number" -> extract_number(map, read[1])
      [] read[2] = "Colour" -> extract_colour(map, read[1])

\* The lookup and the extractions of render.rs:83-94 and :206-221, :258-281 for
\* one element of a slide succeed.
RendersElement(slide, elem) ==
    /\ styles_for_target(slide.styles, reify(elem)) # <<>>
    /\ \A read \in RendererReads(elem.el_type) :
          RendererRead(styles_for_target(slide.styles, reify(elem))[1], read).tag = "Ok"

\* C11: every successfully loaded document is well-formed for the renderer: for
\* every Text or Code element reachable from a slide's content root, the slide's
\* resolved style map has an entry for the element's style target (Named(name)
\* when the element is named, otherwise Anonymous(type)) holding font, size and
\* fill (and bg and margin for Code) of the kinds the renderer extracts, so the
\* target lookup and the typed extractions cannot fail.
C11_LoadedDocumentsRender ==
    result = "Ok" =>
        \A i \in 1..Len(global.slides) :
            /\ traverse(global, global.slides[i].content).tag = "Ok"
            /\ \A k \in 1..Len(get_slide_elements(global, global.slides[i])) :
                  RendersElement(global.slides[i],
                                 get_slide_elements(global, global.slides[i])[k])

\* C12: a trailing comma with no following element in a row/col body produces
\* no extra child: load of `[ row(text("a"),) ]` succeeds and the Row has
\* exactly the child that precedes the comma.
C12_TrailingCommaNoExtraChild ==
    (source = ExTrailingComma /\ pc = "done") =>
        /\ result = "Ok"
        /\ [i \in 1..Len(global.elements) |-> global.elements[i].data]
              = <<DText("a"), DRow(<<1>>)>>

\* The data a leaf or a container of the authored tree t is stored with, given
\* the ids of its children (ast.rs:119-129).
DataOf(t, children) ==
    CASE t.ty = "none" -> DNone
      [] t.ty = "text" -> DText(ConcatStr(t.arg))
      [] t.ty = "code" -> DCode(ConcatStr(t.arg))
      [] t.ty = "img" -> DImage(ConcatStr(t.arg))
      [] t.ty = "row" -> DRow(children)
      [] t.ty = "col" -> DCol(children)
      [] t.ty = "centre" -> DCentre(children[1])
      [] t.ty = "padding" -> DPadding(children[1])

\* The element of id `id` and its descendants are stored with the names, the
\* types and the data the authored tree t declares.
RECURSIVE StoredAs(_, _, _)
StoredAs(g, id, t) ==
    /\ get_element_by_id(g, id) # <<>>
    /\ get_element_by_id(g, id)[1].name = (IF t.name = "" THEN NoName ELSE SomeName(t.name))
    /\ get_element_by_id(g, id)[1].el_type = Keyword[t.ty]
    /\ Len(ChildrenOf(get_element_by_id(g, id)[1])) = Len(t.kids)
    /\ get_element_by_id(g, id)[1].data = DataOf(t, ChildrenOf(get_element_by_id(g, id)[1]))
    /\ \A k \in 1..Len(t.kids) :
          StoredAs(g, ChildrenOf(get_element_by_id(g, id)[1])[k], t.kids[k])

\* C13: an element declared as `name :: type(...)` is stored with name
\* Some(name) and the data of that type, and an element declared by a type
\* keyword alone is stored with name None.  `[ none() ]` loads to exactly one
\* slide whose element (id 1) has data None and no name; `[ joop :: none() ]`
\* loads to data None with name joop.
C13_DeclaredNameStored ==
    /\ (result = "Ok" /\ IsAuthored) =>
          \A i \in 1..Len(global.slides) :
              StoredAs(global, global.slides[i].content, authored[2][i].content)
    /\ (pc = "done" /\ source \in {ExNone, ExNamedNone}) => result = "Ok"
    /\ (result = "Ok" /\ source = ExNone) =>
          /\ Len(global.slides) = 1
          /\ global.slides[1].content = 1
          /\ global.elements
                = << [data |-> DNone, name |-> NoName, id |-> 1, el_type |-> "ElNone"] >>
    /\ (result = "Ok" /\ source = ExNamedNone) =>
          /\ Len(global.slides) = 1
          /\ global.slides[1].content = 1
          /\ global.elements
                = << [data |-> DNone, name |-> SomeName("joop"), id |-> 1,
                      el_type |-> "ElNone"] >>

\* C13, its case: a loaded document that declares one element with a name and
\* another by its keyword alone.
C13_Witness ==
    /\ result = "Ok"
    /\ IsAuthored
    /\ \E i, j \in 1..Len(global.elements) :
          /\ global.elements[i].name = SomeName("joop")
          /\ global.elements[j].name = NoName

\* The ids handed out so far, of the elements and of the slides.
ElementIds == {global.elements[j].id : j \in 1..Len(global.elements)}
SlideIds == {global.slides[i].id : i \in 1..Len(global.slides)}

\* C14: each slide gets its own id from the same counter as the elements: the
\* ids of elements and slides together are 1..unassigned_id without repetition,
\* a slide's id is the id of no element and is a child inside no element's
\* data; the slides are in source order, and slide k's content is the root
\* parsed from the k-th `[...]` group (the last element pushed before the slide
\* took its id, built from the k-th authored slide).
C14_SlidesOwnIdsInSourceOrder ==
    /\ ElementIds \cap SlideIds = {}
    /\ ElementIds \cup SlideIds = 1..global.unassigned_id
    /\ Cardinality(ElementIds) = Len(global.elements)
    /\ Cardinality(SlideIds) = Len(global.slides)
    /\ \A j \in 1..Len(global.elements) :
          \A k \in 1..Len(ChildrenOf(global.elements[j])) :
              ChildrenOf(global.elements[j])[k] \notin SlideIds
    /\ \A i \in 1..(Len(global.slides) - 1) : global.slides[i].id < global.slides[i + 1].id
    /\ \A i \in 1..Len(global.slides) :
          /\ global.slides[i].content = global.slides[i].id - 1
          /\ global.slides[i].content \in ElementIds
    /\ pc = "slides" => Len(global.slides) = slide_idx
    /\ result = "Ok" => Len(global.slides) = Len(grouped_tokens)
    /\ IsAuthored =>
          \A i \in 1..Len(global.slides) :
              StoredAs(global, global.slides[i].content, authored[2][i].content)

\* C14, its case: two slides are loaded, the second one's elements were given
\* ids after the first slide took its own, and the two slides differ.
C14_Witness ==
    /\ result = "Ok"
    /\ IsAuthored
    /\ Len(global.slides) = 2
    /\ authored[2][1].content # authored[2][2].content
    /\ \E j \in 1..Len(global.elements) : global.elements[j].id > global.slides[1].id
    /\ \E j \in 1..Len(global.elements) : ChildrenOf(global.elements[j]) # <<>>

\* The ids reachable from the ids of S by following children at most n times.
RECURSIVE Closure(_, _, _)
Closure(g, S, n) ==
    IF n = 0 THEN S
    ELSE Closure(g,
                 S \cup UNION { { ChildrenOf(get_element_by_id(g, id)[1])[k]
                                  : k \in 1..Len(ChildrenOf(get_element_by_id(g, id)[1])) }
                                : id \in S },
                 n - 1)

\* The position of id in the listing ids (0 when absent).
PositionIn(ids, id) ==
    IF \E p \in 1..Len(ids) : ids[p] = id THEN CHOOSE p \in 1..Len(ids) : ids[p] = id ELSE 0

\* ids lists root first and every listed element's children after it, the
\* first child next to its parent and each later child right after the whole
\* subtree of the child before it.
IsPreOrder(g, ids) ==
    \A p \in 1..Len(ids) :
        \A k \in 1..Len(ChildrenOf(get_element_by_id(g, ids[p])[1])) :
            PositionIn(ids, ChildrenOf(get_element_by_id(g, ids[p])[1])[k])
              = IF k = 1 THEN p + 1
                ELSE PositionIn(ids, ChildrenOf(get_element_by_id(g, ids[p])[1])[k - 1])
                       + Len(traverse(g, ChildrenOf(get_element_by_id(g, ids[p])[1])[k - 1]).ids)

\* C15: for every element of the arena the parser builds, traverse(id)
\* terminates without a panic and returns id first, followed by the ids of all
\* its descendants in pre-order (each Row/Col child's whole subtree in child
\* order, the single child's subtree for Centre/Padding, nothing for leaves),
\* each id of the subtree exactly once.
C15_TraversePreOrder ==
    \A j \in 1..Len(global.elements) :
        /\ traverse(global, global.elements[j].id).tag = "Ok"
        /\ traverse(global, global.elements[j].id).ids[1] = global.elements[j].id
        /\ \A p, q \in 1..Len(traverse(global, global.elements[j].id).ids) :
              p # q => traverse(global, global.elements[j].id).ids[p]
                         # traverse(global, global.elements[j].id).ids[q]
        /\ { traverse(global, global.elements[j].id).ids[p]
             : p \in 1..Len(traverse(global, global.elements[j].id).ids) }
              = Closure(global, {global.elements[j].id}, Len(global.elements))
        /\ IsPreOrder(global, traverse(global, global.elements[j].id).ids)
        /\ ChildrenOf(global.elements[j]) = <<>> =>
              traverse(global, global.elements[j].id).ids = <<global.elements[j].id>>

\* C15, its case: the row of a text and a col of two texts is traversed from
\* its root: the row, the text, the col, the col's two texts.
C15_Witness ==
    /\ result = "Ok"
    /\ authored = Authored(<< AuthoredSlide(ColInRow, <<>>) >>)
    /\ traverse(global, global.slides[1].content).ids = <<5, 1, 4, 2, 3>>

(***************************************************************************)
(* The calls of style.rs on a style map of its own: fill_in against the    *)
(* defaults (interpreter.rs:731) and the typed extractions the layout and  *)
(* the renderer make (layout.rs:58-305, render.rs:39-281).                 *)
(***************************************************************************)
\* The targets and the property maps the style maps of this specification are
\* made of: every kind of PropertyValue (style.rs:11-19) occurs.
SampleTargets == {TSlide, TAnonymous("Text"), TNamed("joop")}

SampleProperties ==
    { NoProperties,
      ("size" :> PNumber(3)),
      ("size" :> PString("big")),
      ("size" :> PSizeSpec([width |-> <<"Some", 4>>, height |-> <<"None">>])),
      ("font" :> PBoolean(TRUE)),
      ("font" :> PColour(1, 2, 3)),
      ("size" :> PNumber(3)) @@ ("font" :> PString("Mono")) }

\* The style maps of at most MaxStyles targets.
SampleStyleMaps ==
    UNION { [T -> SampleProperties]
            : T \in { S \in SUBSET SampleTargets : Cardinality(S) <= MaxStyles } }

PropertyKinds == {"Number", "String", "Boolean", "Colour", "SizeSpec"}

PropertyNames == {"size", "font", "margin"}

\* The call of the extraction function of one kind, recorded with its arguments.
Extraction(kind, map, property) ==
    [kind |-> kind, map |-> map, property |-> property,
     outcome |-> CASE kind = "Number" -> extract_number(map, property)
                   [] kind = "String" -> extract_string(map, property)
                   [] kind = "Boolean" -> extract_boolean(map, property)
                   [] kind = "Colour" -> extract_colour(map, property)
                   [] kind = "SizeSpec" -> extract_size_spec(map, property)]

StyleInit ==
    /\ source = <<>>
    /\ authored = Raw
    /\ pc = "styles"
    /\ contiguous_tokens = <<>>
    /\ grouped_tokens = <<>>
    /\ slide_idx = 0
    /\ global = NewGlobalState
    /\ partial_styles = <<>>
    /\ result = "Running"
    /\ err = NoError
    /\ stylemap \in SampleStyleMaps
    /\ filled = FALSE
    /\ extracted = NoExtraction
    /\ NotPresenting

\* style_map.fill_in(StyleMap::default()) (interpreter.rs:731)
FillIn ==
    /\ pc = "styles"
    /\ stylemap' = fill_in(stylemap, DefaultStyleMap)
    /\ filled' = TRUE
    /\ UNCHANGED <<load_vars, extracted, present_vars>>

\* extract_*(styles_for_target(target).unwrap(), property)
\* (render.rs:37-42, 94, 209-221; layout.rs:98-103, 268-273, 298-305)
Extract ==
    /\ pc = "styles"
    /\ \E kind \in PropertyKinds, target \in SampleTargets, property \in PropertyNames :
          /\ styles_for_target(stylemap, target) # <<>>
          /\ extracted' = Extraction(kind, styles_for_target(stylemap, target)[1], property)
    /\ UNCHANGED <<load_vars, stylemap, filled, present_vars>>

StyleNext == FillIn \/ Extract

StyleSpec == StyleInit /\ [][StyleNext]_vars

\* C16: fill-in is idempotent: once fill_in with the global defaults has been
\* applied to a partial style map, applying it again leaves the map as it is.
C16_FillInIdempotent == [][filled => stylemap' = stylemap]_vars

\* C16, its case: fill_in has been applied to a map that gave a target of the
\* user's and part of the text style, and has supplied the rest.
C16_Witness ==
    /\ filled
    /\ TNamed("joop") \in DOMAIN stylemap
    /\ TAnonymous("Text") \in DOMAIN stylemap
    /\ stylemap[TAnonymous("Text")]["size"] = PNumber(3)
    /\ stylemap[TAnonymous("Text")]["font"] = PString("Liberation Serif")
    /\ TAnonymous("Code") \in DOMAIN stylemap

\* The payload of a property value, as the extraction of its kind returns it.
Payload(pv) == IF pv[1] = "Colour" THEN <<pv[2], pv[3], pv[4]>> ELSE pv[2]

\* C17: a typed extraction returns the stored payload exactly when the map
\* holds the property name with a value of the requested kind; it fails fatally
\* when the name is absent and when the value is of any other kind, and never
\* coerces between kinds.
C17_TypedExtraction ==
    extracted # NoExtraction =>
        IF extracted.property \in DOMAIN extracted.map
        THEN IF extracted.map[extracted.property][1] = extracted.kind
             THEN extracted.outcome = Extracted(Payload(extracted.map[extracted.property]))
             ELSE extracted.outcome = WrongType(extracted.map[extracted.property])
        ELSE extracted.outcome = NotFound

\* C17, its case: a number was asked of a property that holds a string, and
\* the extraction panicked.
C17_Witness ==
    /\ extracted # NoExtraction
    /\ extracted.kind = "Number"
    /\ extracted.property \in DOMAIN extracted.map
    /\ extracted.map[extracted.property][1] = "String"
    /\ extracted.outcome.tag = "Panic"

\* The line without its leading spaces and tabs.
RECURSIVE TrimStart(_)
TrimStart(line) ==
    IF line # <<>> /\ Head(line) \in {" ", "\t"} THEN TrimStart(Tail(line)) ELSE line

\* A full-line comment: the first non-whitespace characters of the line are `//`.
IsCommentLine(line) == StartsWithComment(TrimStart(line))

\* C18: every line whose first non-whitespace characters are `//` (also when
\* spaces precede the `//`) contributes no token to the token stream; the
\* characters of every other line are all given to the tokenizer.
C18_CommentLinesGiveNoTokens ==
    pc # "lex" =>
        \A i \in 1..Len(Lines(source)) :
            IF IsCommentLine(Lines(source)[i])
            THEN \A k \in 1..Len(contiguous_tokens) :
                    contiguous_tokens[k].location.line # i - 1
            ELSE \A j \in 1..Len(Lines(source)[i]) :
                    \E k \in 1..Len(AllCharacters(source)) :
                        AllCharacters(source)[k]
                          = [line |-> i - 1, col |-> j - 1, c |-> Lines(source)[i][j]]

\* C19: when the first identifier of a slide's element definition is one of the
\* 8 type keywords and the next token is `::`, parsing fails with
\* UseOfContentTypeName carrying the keyword as it is written in the source
\* (e.g. `img`) and the source location of that keyword.
C19_KeywordAsNameCarriesKeyword ==
    [][\A k \in 1..Len(grouped_tokens) :
          (/\ TurnOf(grouped_tokens[k])
           /\ k = slide_idx + 1
           /\ KeywordBeforeDefinition(grouped_tokens[k]))
             => /\ result' # "Ok"
                /\ pc' = "done"
                /\ err' = UseOfContentTypeName(grouped_tokens[k][1].location,
                                               grouped_tokens[k][1].token[2])]_vars

\* The style directives that follow the content of the slide group iter: the
\* token groups between the closing braces (interpreter.rs:652-657).
StyleDirectivesOf(iter) == SplitStyles(parse_content_definition(iter, NewGlobalState).rest)

\* A chunk is Ident, ValueAssignment, Value and, if it has a fourth token, a
\* ListSeparator.
ChunkInPosition(chunk) ==
    /\ Len(chunk) >= 3
    /\ IsIdent(chunk[1].token)
    /\ chunk[2].token = ValueAssignment
    /\ IsValue(chunk[3].token)
    /\ Len(chunk) = 4 => chunk[4].token = ListSeparator

\* A directive is a target identifier, `{`, and chunks with every token in its
\* position.
DirectiveInPosition(directive) ==
    /\ Len(directive) >= 2
    /\ IsIdent(directive[1].token)
    /\ directive[2].token = OpeningParamsParen
    /\ \A c \in 1..Len(Chunks4(Drop(directive, 2))) :
          ChunkInPosition(Chunks4(Drop(directive, 2))[c])

\* The directive of index d is the last one of its target among directives.
LastOfItsTarget(directives, d) ==
    \A e \in (d + 1)..Len(directives) : directives[e][1].token # directives[d][1].token

\* Every chunk of the directive gave its pair to the properties of the target.
ChunksYieldPairs(directive, properties) ==
    \A c \in 1..Len(Chunks4(Drop(directive, 2))) :
        /\ Chunks4(Drop(directive, 2))[c][1].token[2] \in DOMAIN properties
        /\ \E b \in c..Len(Chunks4(Drop(directive, 2))) :
              /\ Chunks4(Drop(directive, 2))[b][1].token
                    = Chunks4(Drop(directive, 2))[c][1].token
              /\ properties[Chunks4(Drop(directive, 2))[c][1].token[2]]
                    = Chunks4(Drop(directive, 2))[b][3].token[2]

\* C20: in a style directive, after the target and the opening `{`, tokens are
\* read in chunks (Ident, ValueAssignment, Value, optional ListSeparator), each
\* chunk yielding one property pair, a missing separator after the final chunk
\* being tolerated; a token in a wrong position (a second token that is not
\* `{`, a non-Ident name, a non-`:` second chunk token, a non-Value third, a
\* non-`,` fourth) is a fatal parse error: no load that succeeds has read one.
C20_StyleTokensInPosition ==
    result = "Ok" =>
        \A k \in 1..Len(grouped_tokens) :
            \A d \in 1..Len(StyleDirectivesOf(grouped_tokens[k])) :
                /\ DirectiveInPosition(StyleDirectivesOf(grouped_tokens[k])[d])
                /\ LastOfItsTarget(StyleDirectivesOf(grouped_tokens[k]), d) =>
                      ChunksYieldPairs(
                          StyleDirectivesOf(grouped_tokens[k])[d],
                          partial_styles[k][style_target(
                              StyleDirectivesOf(grouped_tokens[k])[d][1].token[2])])

\* The sequence before is a prefix of the sequence after.
IsPrefixOf(before, after) ==
    /\ Len(before) <= Len(after)
    /\ \A i \in 1..Len(before) : after[i] = before[i]

\* C21: the arena is append-only: across the pushes of load (push_element,
\* Slide::new, push_slide) an element once pushed keeps its id, data, name and
\* position and a slide its place, number_of_elements and number_of_slides
\* never decrease, and an id handed out by a step was never handed out before
\* (over elements and slides together).
C21_ArenaAppendOnly ==
    [][/\ IsPrefixOf(global.elements, global'.elements)
       /\ IsPrefixOf(global.slides, global'.slides)
       /\ global'.unassigned_id >= global.unassigned_id
       /\ \A j \in (Len(global.elements) + 1)..Len(global'.elements) :
             /\ global'.elements[j].id > global.unassigned_id
             /\ global'.elements[j].id <= global'.unassigned_id
       /\ \A i \in (Len(global.slides) + 1)..Len(global'.slides) :
             /\ global'.slides[i].id > global.unassigned_id
             /\ global'.slides[i].id <= global'.unassigned_id
       /\ Cardinality({global'.elements[j].id : j \in 1..Len(global'.elements)}
                        \cup {global'.slides[i].id : i \in 1..Len(global'.slides)})
             = Len(global'.elements) + Len(global'.slides)]_vars

\* C21, its case: three turns of the loop have each appended to an arena that
\* already held elements and slides.
C21_Witness ==
    /\ pc = "done"
    /\ Len(global.slides) = 3
    /\ Len(global.elements) = 3
    /\ global.unassigned_id = 6

\* The loop of load over the slide groups from the k-th on (interpreter.rs:
\* 643-742): the arena it leaves and how it ended.
RECURSIVE load_from(_, _, _)
load_rest(groups, k, loaded) ==
    IF loaded.tag # "Ok" THEN [tag |-> loaded.tag, global |-> loaded.global]
    ELSE load_from(groups, k + 1, loaded.global)

load_from(groups, k, g) ==
    IF k > Len(groups) THEN [tag |-> "Ok", global |-> g]
    ELSE load_rest(groups, k, load_slide(groups[k], g))

\* The groups of a second source that differs from the first one only in the
\* tokens of slide j, which are those of slide m.
ReplaceGroup(groups, j, m) == [groups EXCEPT ![j] = groups[m]]

\* The names and the data of the elements of a slide's tree, in traverse order.
TreeOf(g, slide) ==
    [k \in 1..Len(get_slide_elements(g, slide)) |->
        <<get_slide_elements(g, slide)[k].name, get_slide_elements(g, slide)[k].data>>]

\* The data of an element with each child id taken relative to the id root.
RelativeData(elem, root) ==
    CASE elem.data[1] \in {"Row", "Col"} ->
            <<elem.data[1], [k \in 1..Len(elem.data[2]) |-> elem.data[2][k] - root]>>
      [] elem.data[1] \in {"Centre", "Padding"} -> <<elem.data[1], elem.data[2] - root>>
      [] OTHER -> elem.data

\* The names and the data of a slide's tree, ids relative to the content root.
ShapeOf(g, slide) ==
    [k \in 1..Len(get_slide_elements(g, slide)) |->
        <<get_slide_elements(g, slide)[k].name,
          RelativeData(get_slide_elements(g, slide)[k], slide.content)>>]

\* Slide i of the arena g and of the arena of the second load have the same
\* style map and the same tree, child ids included.
SameSlide(g, second, i) ==
    /\ i <= Len(second.slides)
    /\ second.slides[i].styles = g.slides[i].styles
    /\ TreeOf(second, second.slides[i]) = TreeOf(g, g.slides[i])

\* The same, the ids of each tree taken relative to its root.
SameSlideUpToIds(g, second, i) ==
    /\ i <= Len(second.slides)
    /\ second.slides[i].styles = g.slides[i].styles
    /\ ShapeOf(second, second.slides[i]) = ShapeOf(g, g.slides[i])

\* C22, as claimed: slides are independent: for two sources that differ only
\* in the tokens of slide j, the element data and names of slide i's tree and
\* slide i's resolved style map are identical for every i other than j.
C22_SlidesIndependent ==
    result = "Ok" =>
        \A j, m \in 1..Len(grouped_tokens) :
            \A i \in 1..Len(grouped_tokens) :
                i # j =>
                    SameSlide(global,
                              load_from(ReplaceGroup(grouped_tokens, j, m), 1,
                                        NewGlobalState).global, i)

\* C22, amended: the same, the child ids inside the element data being compared
\* relative to the id of the slide's content root: the ids themselves depend on
\* how many ids the slides before have taken.
C22_SlidesIndependentUpToIds ==
    result = "Ok" =>
        \A j, m \in 1..Len(grouped_tokens) :
            \A i \in 1..Len(grouped_tokens) :
                i # j =>
                    SameSlideUpToIds(global,
                                     load_from(ReplaceGroup(grouped_tokens, j, m), 1,
                                               NewGlobalState).global, i)

\* C22, its case: two slides with a style directive each are loaded, the second
\* one a container.
C22_Witness ==
    /\ result = "Ok"
    /\ source = ExTwoStyled
    /\ Len(global.slides) = 2
    /\ global.slides[1].styles # global.slides[2].styles
    /\ ShapeOf(global, global.slides[2]) = << <<NoName, <<"Centre", -1>>>>, <<NoName, DNone>> >>

\* A character of a bare word: not whitespace and not structural punctuation.
IsWordCharacter(c) == c \notin {" ", "\t", ":"} /\ ~IsPunctuation(c)

\* The line of index i (from 1) starts outside a string literal: the kept lines
\* before it hold an even number of double quotes.
StartsOutsideString(s, i) ==
    Cardinality({k \in 1..Len(AllCharacters(s)) :
                    AllCharacters(s)[k].c = Quote /\ AllCharacters(s)[k].line < i - 1}) % 2 = 0

\* C23: bare words are delimited by whitespace, structural punctuation or a
\* string edge and never span a line break: a word that starts a line is a token
\* of its own, located at the line's first column, whatever the line before
\* ends with.
C23_WordsEndAtLineBreak ==
    pc # "lex" =>
        \A i \in 1..Len(Lines(source)) :
            (/\ KeepLine(Lines(source)[i])
             /\ Lines(source)[i] # <<>>
             /\ IsWordCharacter(Lines(source)[i][1])
             /\ StartsOutsideString(source, i))
                => \E k \in 1..Len(contiguous_tokens) :
                      /\ contiguous_tokens[k].location = TokenLocation(i - 1, 0)
                      /\ \/ IsIdent(contiguous_tokens[k].token)
                         \/ IsValue(contiguous_tokens[k].token)

\* The token of index p of iter is the keyword of a one-child wrapper, with its
\* "(" next.
WrapperAt(iter, p) ==
    /\ p + 1 <= Len(iter)
    /\ IsIdent(iter[p].token)
    /\ iter[p].token[2] \in {"centre", "padding"}
    /\ iter[p + 1].token = OpeningArgsParen

\* What is left of the argument body of the wrapper at p once one element
\* definition has been parsed from it: <<>> when the body is one definition.
AfterTheChild(iter, p) ==
    parse_content_definition(take_content_tokens(Drop(iter, p + 1)).content_tokens,
                             NewGlobalState)

\* C24: for every centre/padding element that is parsed successfully the
\* argument body is exactly one child element definition (no token remains in
\* the body after the child's closing paren) and the stored child id is the id
\* returned for that definition, the element pushed just before the wrapper; a
\* body of more than one definition is not accepted.
C24_WrapperHoldsOneDefinition ==
    result = "Ok" =>
        /\ \A k \in 1..Len(grouped_tokens) :
              \A p \in 1..Len(grouped_tokens[k]) :
                  (WrapperAt(grouped_tokens[k], p)
                     /\ AfterTheChild(grouped_tokens[k], p).tag = "Ok")
                      => AfterTheChild(grouped_tokens[k], p).rest = <<>>
        /\ \A j \in 1..Len(global.elements) :
              global.elements[j].data[1] \in {"Centre", "Padding"} =>
                  /\ j > 1
                  /\ global.elements[j].data[2] = global.elements[j - 1].id

\* The ids of a list are strictly increasing.
StrictlyIncreasing(ids) == \A a, b \in 1..Len(ids) : a < b => ids[a] < ids[b]

\* The k-th child of every container under `id` is the k-th definition of the
\* body of the authored tree t.
RECURSIVE InSourceOrder(_, _, _)
InSourceOrder(g, id, t) ==
    /\ get_element_by_id(g, id) # <<>>
    /\ Len(ChildrenOf(get_element_by_id(g, id)[1])) = Len(t.kids)
    /\ \A k \in 1..Len(t.kids) :
          /\ get_element_by_id(g, ChildrenOf(get_element_by_id(g, id)[1])[k]) # <<>>
          /\ get_element_by_id(g, ChildrenOf(get_element_by_id(g, id)[1])[k])[1].el_type
                = Keyword[t.kids[k].ty]
          /\ InSourceOrder(g, ChildrenOf(get_element_by_id(g, id)[1])[k], t.kids[k])

\* C25: the children of a row or col are parsed in source order, each pushed
\* before its parent and after everything inside it: the id list of every Row
\* and Col is strictly increasing and every id in it is smaller than the id of
\* the parent.  The row of the col_in_row test has ids a = 1, b = 2, c = 3,
\* col = 4, row = 5.
C25_ChildrenInSourceOrderPostOrderIds ==
    /\ \A j \in 1..Len(global.elements) :
          global.elements[j].data[1] \in {"Row", "Col"} =>
              /\ StrictlyIncreasing(global.elements[j].data[2])
              /\ \A k \in 1..Len(global.elements[j].data[2]) :
                    global.elements[j].data[2][k] < global.elements[j].id
    /\ (result = "Ok" /\ IsAuthored) =>
          \A i \in 1..Len(global.slides) :
              InSourceOrder(global, global.slides[i].content, authored[2][i].content)
    /\ (result = "Ok" /\ source = ExColInRow) =>
          /\ [j \in 1..Len(global.elements) |-> global.elements[j].id] = <<1, 2, 3, 4, 5>>
          /\ [j \in 1..Len(global.elements) |-> global.elements[j].data[1]]
                = <<"Text", "Text", "Text", "Col", "Row">>
          /\ global.elements[4].data[2] = <<2, 3>>
          /\ global.elements[5].data[2] = <<1, 4>>

\* C25, its case: a loaded row or col of at least two children, one of which
\* is itself a container.
C25_Witness ==
    /\ result = "Ok"
    /\ \E j \in 1..Len(global.elements) :
          /\ global.elements[j].data[1] \in {"Row", "Col"}
          /\ Len(global.elements[j].data[2]) >= 2
          /\ \E k \in 1..Len(global.elements[j].data[2]) :
                \E c \in 1..Len(global.elements) :
                    /\ global.elements[c].id = global.elements[j].data[2][k]
                    /\ global.elements[c].data[1] \in {"Row", "Col"}

\* C26: for any style maps self and other, after self.fill_in(other) every
\* target present in other and absent from self maps to exactly other's
\* property set for that target: the same names, the same values, nothing
\* added.  Self is the style map of the state, other any sample style map.
C26_AbsentTargetsTakenVerbatim ==
    \A other \in SampleStyleMaps :
        \A target \in DOMAIN other \ DOMAIN stylemap :
            /\ target \in DOMAIN fill_in(stylemap, other)
            /\ fill_in(stylemap, other)[target] = other[target]

(***************************************************************************)
(* Present mode (main.rs:90-163): the document is loaded, the rendering    *)
(* data is initialised, and the event loop renders the current slide and   *)
(* moves between slides on the Left and Right keys.                        *)
(***************************************************************************)
\* The events the match of main.rs:132-160 tells apart; "Other" is any event of
\* its last arm.
Events == {"Quit", "Escape", "Right", "Left", "Other"}

\* The texture_map of initialise_rendering_data (render.rs:141-158): the ids
\* 0 .. number_of_elements() - 1 are looked up, the Image elements found are
\* kept, and each is entered under its id with the texture of its path.
\* load_texture is taken to succeed.
texture_map_of(g) ==
    [id \in { idx \in 0..(Len(g.elements) - 1) :
                IF get_element_by_id(g, idx) = <<>> THEN FALSE
                ELSE get_element_by_id(g, idx)[1].el_type = "Image" }
        |-> get_element_by_id(g, id)[1].data[2]]

\* fonts_for_targets of initialise_rendering_data (render.rs:74-94): for every
\* Text and Code element of every slide, the style of its target is looked up
\* and unwrapped and its font is extracted.
font_lookup_panics(slide, elem) ==
    /\ elem.el_type \in {"Text", "Code"}
    /\ IF styles_for_target(slide.styles, reify(elem)) = <<>> THEN TRUE
       ELSE extract_string(styles_for_target(slide.styles, reify(elem))[1], "font").tag # "Ok"

initialise_panics(g) ==
    \E i \in 1..Len(g.slides) :
        \/ traverse(g, g.slides[i].content).tag = "Panic"
        \/ \E k \in 1..Len(get_slide_elements(g, g.slides[i])) :
              font_lookup_panics(g.slides[i], get_slide_elements(g, g.slides[i])[k])

\* The elements that get a layout element of their own (layout.rs:56-290): a
\* Row or Col gives those of its children, a Padding those of its child, every
\* other element itself.
RECURSIVE layout_elements(_, _)
layout_elements(g, id) ==
    IF get_element_by_id(g, id) = <<>> THEN <<>>
    ELSE IF get_element_by_id(g, id)[1].data[1] \in {"Row", "Col", "Padding"}
    THEN Flatten([k \in 1..Len(ChildrenOf(get_element_by_id(g, id)[1])) |->
                    layout_elements(g, ChildrenOf(get_element_by_id(g, id)[1])[k])])
    ELSE <<id>>

\* The Image arm of render (render.rs:319-323) for the layout element of id
\* `id`: the texture is looked up and unwrapped.
texture_lookup_panics(g, id, textures) ==
    /\ get_element_by_id(g, id)[1].data[1] = "Image"
    /\ id \notin DOMAIN textures

\* The Text and Code arms of render (render.rs:206-221, 258-281).
style_lookup_panics(g, slide, id) ==
    /\ get_element_by_id(g, id)[1].data[1] \in {"Text", "Code"}
    /\ ~RendersElement(slide, get_element_by_id(g, id)[1])

\* render (render.rs:164-330) called with idx.  It panics for certain when idx
\* is no index of global.slides (render.rs:36), when a layout element is an
\* Image without a texture or a Text or Code whose style cannot be read.
\* Otherwise it presents the slide, unless the layout arithmetic
\* (layout.rs:126-132, 303-312) or a call of SDL (render.rs:186, 309, 322)
\* panics.
render_outcomes(g, idx, textures) ==
    IF idx >= Len(g.slides) THEN {"Panic"}
    ELSE IF \E k \in 1..Len(layout_elements(g, g.slides[idx + 1].content)) :
               \/ texture_lookup_panics(g, layout_elements(g, g.slides[idx + 1].content)[k],
                                        textures)
               \/ style_lookup_panics(g, g.slides[idx + 1],
                                      layout_elements(g, g.slides[idx + 1].content)[k])
    THEN {"Panic"}
    ELSE {"Presented", "Panic"}

\* The outcome of a key that moves from slide idx to slide new_idx
\* (main.rs:145-148, 155-158).
moved(idx, new_idx) == [ui |-> "waiting", slide_idx |-> new_idx, redraw |-> new_idx # idx]

\* The ways the match of main.rs:132-160 can end for the event e.  With no
\* slide, number_of_slides - 1 overflows usize: a panic in a build with
\* overflow checks, usize::MAX in one without.
match_event(e, idx, n) ==
    CASE e \in {"Quit", "Escape"} -> {[ui |-> "exited", slide_idx |-> idx, redraw |-> FALSE]}
      [] e = "Right" ->
            IF n = 0
            THEN {[ui |-> "panicked", slide_idx |-> idx, redraw |-> FALSE], moved(idx, idx + 1)}
            ELSE {moved(idx, IF n - 1 < idx + 1 THEN n - 1 ELSE idx + 1)}
      [] e = "Left" -> {moved(idx, IF idx = 0 THEN 0 ELSE idx - 1)}
      [] OTHER -> {moved(idx, idx)}

\* main.rs:91-116: load_from_file(..).unwrap(), the black window, the rendering
\* data, slide_idx = 0 and window_needs_redraw = true.
StartPresent ==
    /\ pc = "done"
    /\ ui = "off"
    /\ IF result # "Ok" \/ initialise_panics(global)
       THEN /\ ui' = "panicked"
            /\ UNCHANGED <<slide_idx, number_of_slides, texture_map, window_needs_redraw>>
       ELSE /\ ui' = "waiting"
            /\ number_of_slides' = Len(global.slides)
            /\ texture_map' = texture_map_of(global)
            /\ slide_idx' = 0
            /\ window_needs_redraw' = TRUE
    /\ canvas' = Black
    /\ UNCHANGED <<event, rendered>>
    /\ UNCHANGED <<source, authored, pc, contiguous_tokens, grouped_tokens, global,
                   partial_styles, result, err>>
    /\ UNCHANGED style_vars

\* The match of main.rs:132-160 on the event e.
Matched(e) ==
    \E m \in match_event(e, slide_idx, number_of_slides) :
        /\ ui' = m.ui
        /\ slide_idx' = m.slide_idx
        /\ window_needs_redraw' = m.redraw

\* One turn of the loop of main.rs:117-161: wait_iter yields an event, the
\* slide is rendered if window_needs_redraw, and the event is matched.
EventLoop ==
    /\ ui = "waiting"
    /\ \E e \in Events :
          /\ event' = e
          /\ IF window_needs_redraw
             THEN /\ rendered' = <<slide_idx>>
                  /\ \E outcome \in render_outcomes(global, slide_idx, texture_map) :
                        IF outcome = "Panic"
                        THEN /\ ui' = "panicked"
                             /\ UNCHANGED <<slide_idx, window_needs_redraw, canvas>>
                        ELSE /\ canvas' = Showing(slide_idx)
                             /\ Matched(e)
             ELSE /\ Matched(e)
                  /\ UNCHANGED <<rendered, canvas>>
    /\ UNCHANGED <<source, authored, pc, contiguous_tokens, grouped_tokens, global,
                   partial_styles, result, err, number_of_slides, texture_map>>
    /\ UNCHANGED style_vars

PresentNext == Next \/ StartPresent \/ EventLoop

PresentSpec == Init /\ [][PresentNext]_vars

\* C27: initialise_rendering_data loads a texture for every Image element of
\* the arena: once it has run, texture_map has an entry for the id of each
\* element of type Image, whatever the mix of elements and slides, so that the
\* texture lookup of render succeeds for every Image layout element.
C27_EveryImageHasTexture ==
    ui = "waiting" =>
        \A j \in 1..Len(global.elements) :
            global.elements[j].el_type = "Image" =>
                global.elements[j].id \in DOMAIN texture_map

\* C28: in Present mode, for any loaded document and any sequence of Left and
\* Right keys, every call of render is given a slide_idx with
\* 0 <= slide_idx < number_of_slides; Right on the last slide and Left on the
\* first slide leave slide_idx as it is and request no redraw.
C28_RenderedSlideExists ==
    /\ [](rendered # <<>> => (0 <= rendered[1] /\ rendered[1] < number_of_slides))
    /\ [][(ui = "waiting" /\ ui' = "waiting"
            /\ \/ event' = "Right" /\ slide_idx = number_of_slides - 1
               \/ event' = "Left" /\ slide_idx = 0)
          => (slide_idx' = slide_idx /\ window_needs_redraw' = FALSE)]_vars

\* C29: in Present mode, whenever the event loop is blocked waiting for the
\* next event, the window shows the slide at the current slide_idx: the first
\* slide is rendered before any event arrives, and a key that changes
\* slide_idx is followed by a render of the new slide before the loop waits
\* again.
C29_WaitingShowsCurrentSlide ==
    (ui = "waiting" /\ number_of_slides > 0) => canvas = Showing(slide_idx)

(***************************************************************************)
(* The content area of a slide (layout.rs:16-25, 267-280, 293-316) in u32  *)
(* arithmetic.  A u32 is the pair <<high, low>> of its 16-bit halves, so   *)
(* that a wrapped result keeps its 32-bit value.                           *)
(***************************************************************************)
Half == 65536

U32(n) == << n \div Half, n % Half >>

U32Leq(a, b) == a[1] < b[1] \/ (a[1] = b[1] /\ a[2] <= b[2])

\* 2 * a of u32: `overflow` is the panic of a build with overflow checks, value
\* the result of a build without them.
u32_twice(a) ==
    [value |-> << (2 * a[1] + ((2 * a[2]) \div Half)) % Half, (2 * a[2]) % Half >>,
     overflow |-> 2 * a[1] + ((2 * a[2]) \div Half) >= Half]

\* a - b of u32, likewise.
u32_sub(a, b) ==
    [value |-> << (a[1] - b[1] - (IF a[2] < b[2] THEN 1 ELSE 0) + Half) % Half,
                  (a[2] - b[2] + Half) % Half >>,
     overflow |-> a[1] - b[1] - (IF a[2] < b[2] THEN 1 ELSE 0) < 0]

\* side - 2 * margin (layout.rs:21-22, 311-312)
u32_inset(side, margin) ==
    [value |-> u32_sub(side, u32_twice(margin).value).value,
     overflow |-> u32_twice(margin).overflow \/ u32_sub(side, u32_twice(margin).value).overflow]

\* The w and h of Rect::with_margin (layout.rs:16-25)
with_margin(w, h, margin) ==
    [w |-> u32_inset(w, margin).value,
     h |-> u32_inset(h, margin).value,
     overflow |-> u32_inset(w, margin).overflow \/ u32_inset(h, margin).overflow]

\* The numbers Slide::layout reads of the slide's style (layout.rs:295-305) are
\* there and are numbers.
slide_numbers_read(slide) ==
    /\ styles_for_target(slide.styles, TSlide) # <<>>
    /\ \A property \in {"width", "height", "margin"} :
          extract_number(styles_for_target(slide.styles, TSlide)[1], property).tag = "Ok"

slide_number(slide, property) ==
    U32(extract_number(styles_for_target(slide.styles, TSlide)[1], property).value[1])

\* The area Slide::layout computes (layout.rs:307-312); unwrap_or evaluates it
\* whether or not there is a size_override.
slide_area(slide) ==
    with_margin(slide_number(slide, "width"), slide_number(slide, "height"),
                slide_number(slide, "margin"))

\* The amount a Padding at the root of the slide is laid out with
\* (layout.rs:267-273) is there and is a number.
padding_amount_read(g, slide) ==
    /\ get_element_by_id(g, slide.content) # <<>>
    /\ get_element_by_id(g, slide.content)[1].data[1] = "Padding"
    /\ styles_for_target(slide.styles, TAnonymous("Padding")) # <<>>
    /\ extract_number(styles_for_target(slide.styles, TAnonymous("Padding"))[1],
                      "amount").tag = "Ok"

padding_amount(slide) ==
    U32(extract_number(styles_for_target(slide.styles, TAnonymous("Padding"))[1],
                       "amount").value[1])

\* area.with_margin(padding_amount) of a Padding at the root (layout.rs:274)
padding_area(slide) ==
    with_margin(slide_area(slide).w, slide_area(slide).h, padding_amount(slide))

\* C30: for every Slide margin, width and height and every Padding amount a
\* user can author, the content area width - 2*margin by height - 2*margin
\* (Slide::layout, Rect::with_margin) never goes below zero and never wraps
\* around in unsigned 32-bit arithmetic: the resulting w and h are at most the
\* original w and h.
C30_ContentAreaNeverWraps ==
    result = "Ok" =>
        \A i \in 1..Len(global.slides) :
            slide_numbers_read(global.slides[i]) =>
                /\ ~slide_area(global.slides[i]).overflow
                /\ U32Leq(slide_area(global.slides[i]).w,
                          slide_number(global.slides[i], "width"))
                /\ U32Leq(slide_area(global.slides[i]).h,
                          slide_number(global.slides[i], "height"))
                /\ padding_amount_read(global, global.slides[i]) =>
                      /\ ~padding_area(global.slides[i]).overflow
                      /\ U32Leq(padding_area(global.slides[i]).w,
                                slide_area(global.slides[i]).w)
                      /\ U32Leq(padding_area(global.slides[i]).h,
                                slide_area(global.slides[i]).h)

====
